---- MODULE Spec2Model ----
(***************************************************************************)
(* A model of the wallet core (rust/src): the ISO 18013-5 holder session   *)
(* of mdl/holder.rs and the wallet-service client of                       *)
(* haci/wallet_service_client.rs.                                          *)
(*                                                                         *)
(* SpecMdl    : one MdlPresentationSession shared by NumThreads caller     *)
(*              threads (the object is Send + Sync and every method takes  *)
(*              &self).                                                    *)
(* SpecWallet : one WalletServiceClient shared by NumClients tasks.        *)
(*                                                                         *)
(* The isomdl crate (device::SessionManager) and the p256 crate are        *)
(* dependencies of the repository; the operators that stand for their      *)
(* calls are defined next to the call sites they model and follow the      *)
(* crates' behaviour as far as holder.rs relies on it.                     *)
(***************************************************************************)
EXTENDS Integers, Sequences, FiniteSets, TLC

VARIABLES
    \* ---- MdlPresentationSession (mdl/holder.rs:148-154) ----
    engaged,            \* Mutex<SessionManagerEngaged>: the protected value
    engagedPoisoned,    \* poison flag of the engaged mutex
    in_process,         \* Mutex<Option<InProcessRecord>>: the protected value
    inProcessPoisoned,  \* poison flag of the in_process mutex
    pc,                 \* per thread: "idle", or "hr_store" inside handle_request
    derived,            \* per thread: the request handle_request has processed
    \* ---- the caller and the key store (holder.rs:437-442, crypto.rs:23-38) ----
    sigHeld,            \* the signature bytes the caller got from the key store
    keyStoreCallers,    \* who has invoked SigningKey::sign so far
    \* ---- history of the calls made on the session ----
    progress,           \* how far the in-order protocol has advanced (0..3)
    clean,              \* TRUE while only the expected calls have been made
    genSince,           \* a generate_response prepared a response since the last store
    last,               \* the last completed call: operation, argument, result
    \* ---- WalletServiceClient (haci/wallet_service_client.rs:80-85) ----
    token_info,         \* Mutex<Option<TokenInfo>>: the protected value
    now,                \* the clock read by OffsetDateTime::now_utc()
    cpc,                \* per task: where it is inside login()
    cinfo,              \* per task: the TokenInfo login() has created
    cstored,            \* per task: the token this login() call has stored
    slotOwner,          \* the task whose login() stored last (0: nobody yet)
    lastLogin,          \* the last login() that returned: task, result, history
    \* ---- calls of the stateless operations: the last call, its input and result ----
    httpCall,           \* haci clients: nonce / login / new_issuance / check_status
    matchCall,          \* oid4vp/dc_api/requested_values.rs: find_match
    cwtCall,            \* credential/cwt.rs: Cwt::from_base10 / verify
    dcCall,             \* oid4vp/dc_api/mod.rs: handle_dc_api_request / respond
    sigCall,            \* crypto.rs: ensure_raw_fixed_width_signature_encoding
    cborCall,           \* common.rs: CborValue / CborInteger / CborKeyMapper
    vcCall,             \* credential/json_vc.rs: JsonVc::as_vp_token_item
    permCall            \* oid4vp/permission_request.rs: create_permission_response

mdlVars == <<engaged, engagedPoisoned, in_process, inProcessPoisoned, pc, derived,
             sigHeld, keyStoreCallers, progress, clean, genSince, last>>
walletVars == <<token_info, now, cpc, cinfo, cstored, slotOwner, lastLogin>>
callVars == <<httpCall, matchCall, cwtCall, dcCall>>
utilVars == <<sigCall, cborCall, vcCall, permCall>>
vars == <<mdlVars, walletVars, callVars, utilVars>>

----------------------------------------------------------------------------
(* Bounds *)

NumThreads == 2
NumClients == 2
MaxTime == 2

Threads == 1..NumThreads
Clients == 1..NumClients

----------------------------------------------------------------------------
(* Option values *)

None == [tag |-> "None"]
Some(x) == [tag |-> "Some", v |-> x]

----------------------------------------------------------------------------
(* The data an mDL session works on *)

MdlDocType == "org.iso.18013.5.1.mDL"
OtherDocType == "org.example.other"

\* The elements of namespace org.iso.18013.5.1 the document of the session holds.
HeldElements == {"given_name", "family_name"}

\* One entry of the reader's items_request: a doc type and the requested elements.
DocRequest(d, es) == [doc_type |-> d, elements |-> es]

\* The bytes a reader can send to handle_request: bytes that do not decode as a
\* SessionEstablishment, a SessionEstablishment that cannot be processed, and
\* SessionEstablishments carrying an items_request.
UndecodableRequest == [kind |-> "undecodable", id |-> 0, items |-> <<>>]
UnprocessableRequest == [kind |-> "unprocessable", id |-> 0, items |-> <<>>]
GoodRequests ==
    { [kind |-> "good", id |-> 1,
       items |-> <<DocRequest(MdlDocType, {"given_name", "family_name"})>>],
      [kind |-> "good", id |-> 2,
       items |-> <<DocRequest(OtherDocType, {"given_name"}),
                   DocRequest(MdlDocType, {"family_name", "nickname"})>>] }
Requests == GoodRequests \cup {UndecodableRequest, UnprocessableRequest}

\* permitted_items: a map doc type -> permitted elements (of the one namespace),
\* given as the set of its entries.
PermitGiven == [doc_type |-> MdlDocType, elements |-> {"given_name"}]
PermitAll ==
    [doc_type |-> MdlDocType, elements |-> {"given_name", "family_name", "nickname"}]
PermitOther == [doc_type |-> OtherDocType, elements |-> {"given_name"}]
PermittedItems == { {PermitGiven, PermitOther}, {PermitAll}, {PermitOther} }

----------------------------------------------------------------------------
(* Signature bytes: p256::ecdsa::Signature::from_slice and from_der *)

RawLen == 64

\* The payload generate_response hands out: the detached Sig_structure of the
\* DeviceAuthentication of one document, bound to the session transcript.
Payload(transcript, doc_type) ==
    [tag |-> "Payload", transcript |-> transcript, doc_type |-> doc_type]

\* What SigningKey::sign can return ("a signature of unknown encoding"): the
\* signature over p in raw r||s form (64 bytes) or DER-encoded (70 bytes here).
SignatureBytes(p, enc) ==
    [enc |-> enc, len |-> IF enc = "raw" THEN RawLen ELSE 70, over |-> Some(p)]

\* Bytes that are no signature at all, and a DER signature that happens to be 64
\* bytes long.
JunkBytes ==
    { [enc |-> "junk", len |-> 0, over |-> None],
      [enc |-> "junk", len |-> RawLen, over |-> None],
      [enc |-> "der", len |-> RawLen, over |-> None] }

\* Signature::from_slice: exactly 64 bytes, both scalars in range. A 64-byte DER
\* signature passes and is read as some other (r, s).
FromSlice(bytes) ==
    IF bytes.len = RawLen /\ bytes.enc # "junk"
    THEN Some([over |-> IF bytes.enc = "raw" THEN bytes.over ELSE None])
    ELSE None

\* Signature::from_der: a well-formed DER ECDSA-Sig-Value.
FromDer(bytes) ==
    IF bytes.enc = "der" THEN Some([over |-> bytes.over]) ELSE None

----------------------------------------------------------------------------
(* isomdl device::SessionManager as holder.rs drives it *)

\* The documents SessionManagerInit::initialise was given: one mDL.
SessionDocTypes == <<MdlDocType>>

InitialEngaged == [tag |-> "Engaged", docs |-> SessionDocTypes]

\* process_session_establishment on a clone of the engaged state.
ProcessSessionEstablishment(eng, req) ==
    IF req.kind = "good"
    THEN Some([session |-> [transcript |-> req.id, docs |-> eng.docs,
                            state |-> "AwaitingRequest", prepared |-> <<>>],
               items_request |-> req.items])
    ELSE None

\* The first entry of the items_request for a doc type.
RECURSIVE FindRequest(_, _)
FindRequest(items, d) ==
    IF items = <<>> THEN None
    ELSE IF Head(items).doc_type = d THEN Some(Head(items))
    ELSE FindRequest(Tail(items), d)

\* filter_permitted: the permitted entries cut down to what was requested.
FilterPermitted(items, permitted) ==
    { [doc_type |-> e.doc_type,
       elements |-> e.elements \cap FindRequest(items, e.doc_type).v.elements] :
      e \in { x \in permitted : FindRequest(items, x.doc_type) # None } }

\* prepare_response: one prepared document per permitted and requested doc type
\* the session holds, disclosing the permitted and requested elements it holds.
PrepareResponse(session, items, permitted) ==
    LET filtered == FilterPermitted(items, permitted)
        held == SelectSeq(session.docs,
                          LAMBDA d : \E e \in filtered : e.doc_type = d)
        doc(d) == [doc_type |-> d,
                   disclosed |-> (CHOOSE e \in filtered : e.doc_type = d).elements
                                 \cap HeldElements]
    IN  [session EXCEPT !.state = "Signing",
                        !.prepared = [i \in 1..Len(held) |-> doc(held[i])]]

\* get_next_signature_payload: the payload of the next document to sign.
NextSignaturePayload(session) ==
    IF session.state = "Signing" /\ session.prepared # <<>>
    THEN Some(Payload(session.transcript, Head(session.prepared).doc_type))
    ELSE None

\* submit_next_signature followed by retrieve_response. The pair returns the new
\* session and what retrieve_response gave: the encrypted response when no
\* document is left to sign, nothing otherwise. retrieve_response takes the
\* response out and leaves the session awaiting a request.
SubmitAndRetrieve(session, sig) ==
    IF session.state # "Signing"
    THEN [session |-> session, response |-> None]
    ELSE IF Len(session.prepared) > 1
    THEN [session |-> [session EXCEPT !.prepared = Tail(session.prepared)],
          response |-> None]
    ELSE [session |-> [session EXCEPT !.state = "AwaitingRequest", !.prepared = <<>>],
          response |-> Some([tag |-> "DeviceResponse",
                             transcript |-> session.transcript,
                             docs |-> [i \in 1..Len(session.prepared) |->
                                        [doc_type |-> session.prepared[i].doc_type,
                                         disclosed |-> session.prepared[i].disclosed,
                                         sig |-> sig]]])]

----------------------------------------------------------------------------
(* The history of calls *)

\* The call the in-order protocol expects next:
\* handle_request, generate_response, submit_response, terminate_session.
Expected(n) ==
    CASE n = 0 -> "handle_request"
      [] n = 1 -> "generate_response"
      [] n = 2 -> "submit_response"
      [] OTHER -> "terminate_session"

\* The record of a call that returns now. tick alternates, so that every return
\* changes the record.
Completed(op, arg, kind, val) ==
    [op |-> op, arg |-> arg, kind |-> kind, val |-> val, tick |-> 1 - last.tick]

Advance(op, kind) ==
    /\ progress' = IF op = Expected(progress) /\ kind = "Ok" /\ progress < 3
                   THEN progress + 1 ELSE progress
    /\ clean' = (clean /\ op = Expected(progress) /\ kind = "Ok")

Ok(val) == [kind |-> "Ok", val |-> val]
Err(kind) == [kind |-> kind, val |-> None]

\* A session that would sign inside generate_response.
SessionKeyStoreCallsSigning(op) == IF op = "generate_response" THEN {op} ELSE {}

\* The key store invocations a session operation makes: holder.rs holds no
\* KeyStore or SigningKey and calls neither.
SessionKeyStoreCalls(op) == {}

----------------------------------------------------------------------------
(* MdlPresentationSession::handle_request (holder.rs:169-214) *)

\* Lines 171-187: decode the bytes, lock engaged, process the session
\* establishment on a clone. The outcome is an error, or the derived record.
HandleRequestProcessed(req) ==
    IF req.kind = "undecodable" THEN Err("Generic")
    ELSE IF engagedPoisoned THEN Err("Generic")
    ELSE IF ProcessSessionEstablishment(engaged, req) = None THEN Err("Generic")
    ELSE Ok(ProcessSessionEstablishment(engaged, req))

\* The first half of handle_request: up to the release of the engaged lock.
HandleRequestProcess(t, req) ==
    /\ pc[t] = "idle"
    /\ LET r == HandleRequestProcessed(req)
       IN  IF r.kind = "Ok"
           THEN /\ pc' = [pc EXCEPT ![t] = "hr_store"]
                /\ derived' = [derived EXCEPT ![t] = req]
                /\ UNCHANGED <<last, progress, clean>>
           ELSE /\ last' = Completed("handle_request", [req |-> req], r.kind, None)
                /\ Advance("handle_request", r.kind)
                /\ UNCHANGED <<pc, derived>>
    /\ keyStoreCallers' = keyStoreCallers \cup SessionKeyStoreCalls("handle_request")
    /\ UNCHANGED <<engaged, engagedPoisoned, in_process, inProcessPoisoned,
                   sigHeld, genSince>>
    /\ UNCHANGED <<walletVars, callVars, utilVars>>

\* process_session_establishment panics while the engaged guard is held: the
\* call unwinds and the engaged mutex is poisoned.
HandleRequestPanics(t, req) ==
    /\ pc[t] = "idle"
    /\ req.kind # "undecodable"
    /\ ~engagedPoisoned
    /\ engagedPoisoned' = TRUE
    /\ last' = Completed("handle_request", [req |-> req], "Panic", None)
    /\ Advance("handle_request", "Panic")
    /\ keyStoreCallers' = keyStoreCallers \cup SessionKeyStoreCalls("handle_request")
    /\ UNCHANGED <<engaged, in_process, inProcessPoisoned, pc, derived,
                   sigHeld, genSince>>
    /\ UNCHANGED <<walletVars, callVars, utilVars>>

\* A store that would keep the first record instead of replacing it.
StoredRecordKeepFirst(rec) == IF in_process = None THEN Some(rec) ELSE in_process

\* Lines 190-196: what the store leaves in in_process.
StoredRecord(rec) == Some(rec)

\* The second half of handle_request: lock in_process, store, return the items.
HandleRequestStore(t) ==
    /\ pc[t] = "hr_store"
    /\ LET req == derived[t]
           rec == ProcessSessionEstablishment(engaged, req).v
       IN  IF inProcessPoisoned
           THEN /\ last' = Completed("handle_request", [req |-> req], "Generic", None)
                /\ Advance("handle_request", "Generic")
                /\ UNCHANGED <<in_process, genSince>>
           ELSE /\ in_process' = StoredRecord(rec)
                /\ genSince' = FALSE
                /\ last' = Completed("handle_request", [req |-> req], "Ok",
                                     Some([tag |-> "Items", items |-> rec.items_request]))
                /\ Advance("handle_request", "Ok")
    /\ pc' = [pc EXCEPT ![t] = "idle"]
    /\ derived' = [derived EXCEPT ![t] = UndecodableRequest]
    /\ keyStoreCallers' = keyStoreCallers \cup SessionKeyStoreCalls("handle_request")
    /\ UNCHANGED <<engaged, engagedPoisoned, inProcessPoisoned,
                   sigHeld>>
    /\ UNCHANGED <<walletVars, callVars, utilVars>>

----------------------------------------------------------------------------
(* MdlPresentationSession::generate_response (holder.rs:223-251) *)

\* Lines 234-250 on an unpoisoned mutex: the result and what in_process holds
\* afterwards.
GenerateResponseResult(ip, permitted) ==
    IF ip = None
    THEN [res |-> Err("Generic"), in_process |-> ip]
    ELSE LET session == PrepareResponse(ip.v.session, ip.v.items_request, permitted)
             payload == NextSignaturePayload(session)
         IN  [res |-> IF payload = None THEN Err("Generic") ELSE Ok(payload),
              in_process |-> Some([ip.v EXCEPT !.session = session])]

GenerateResponse(t, permitted) ==
    /\ pc[t] = "idle"
    /\ IF inProcessPoisoned
       THEN \* line 234: lock().unwrap() panics
            /\ last' = Completed("generate_response", [permitted |-> permitted],
                                 "Panic", None)
            /\ Advance("generate_response", "Panic")
            /\ UNCHANGED <<in_process, genSince>>
       ELSE LET r == GenerateResponseResult(in_process, permitted)
            IN  /\ in_process' = r.in_process
                /\ genSince' = (in_process # None)
                /\ last' = Completed("generate_response", [permitted |-> permitted],
                                     r.res.kind, r.res.val)
                /\ Advance("generate_response", r.res.kind)
    /\ keyStoreCallers' = keyStoreCallers \cup SessionKeyStoreCalls("generate_response")
    /\ UNCHANGED <<engaged, engagedPoisoned, inProcessPoisoned, pc, derived, sigHeld>>
    /\ UNCHANGED <<walletVars, callVars, utilVars>>

\* prepare_response panics while the in_process guard is held: the call unwinds
\* and the in_process mutex is poisoned.
GenerateResponsePanics(t, permitted) ==
    /\ pc[t] = "idle"
    /\ ~inProcessPoisoned
    /\ in_process # None
    /\ inProcessPoisoned' = TRUE
    /\ last' = Completed("generate_response", [permitted |-> permitted], "Panic", None)
    /\ Advance("generate_response", "Panic")
    /\ keyStoreCallers' = keyStoreCallers \cup SessionKeyStoreCalls("generate_response")
    /\ UNCHANGED <<engaged, engagedPoisoned, in_process, pc, derived,
                   sigHeld, genSince>>
    /\ UNCHANGED <<walletVars, callVars, utilVars>>

----------------------------------------------------------------------------
(* MdlPresentationSession::submit_response (holder.rs:253-275) *)

\* Line 254: the parse of the submitted bytes.
ParseSubmitted(bytes) == FromSlice(bytes)

\* A retrieval that would hand back an empty response where none is ready.
RetrievedResultLenient(response) ==
    IF response = None THEN Ok(Some([tag |-> "DeviceResponse", docs |-> <<>>]))
    ELSE Ok(response)

\* Lines 266-269: what submit_response returns for what retrieve_response gave.
RetrievedResult(response) ==
    IF response = None THEN Err("TooManyDocuments") ELSE Ok(response)

\* A submit that would never retrieve the response after injecting.
SubmitResponseResultNoRetrieve(ip, sig) ==
    IF ip = None
    THEN [res |-> Err("Generic"), in_process |-> ip]
    ELSE [res |-> Err("TooManyDocuments"),
          in_process |-> Some([ip.v EXCEPT
                                 !.session = SubmitAndRetrieve(ip.v.session, sig).session])]

\* Lines 259-274 on an unpoisoned mutex, for a parsed signature.
SubmitResponseResult(ip, sig) ==
    IF ip = None
    THEN [res |-> Err("Generic"), in_process |-> ip]
    ELSE LET r == SubmitAndRetrieve(ip.v.session, sig)
         IN  [res |-> RetrievedResult(r.response),
              in_process |-> Some([ip.v EXCEPT !.session = r.session])]

\* The bytes a caller can pass: what the key store returned, or other bytes.
SubmitInputs == JunkBytes \cup (IF sigHeld = None THEN {} ELSE {sigHeld.v})

SubmitResponse(t, bytes) ==
    /\ pc[t] = "idle"
    /\ IF ParseSubmitted(bytes) = None
       THEN /\ last' = Completed("submit_response", [sig |-> bytes],
                                 "InvalidSignature", None)
            /\ Advance("submit_response", "InvalidSignature")
            /\ UNCHANGED <<in_process, genSince>>
       ELSE IF inProcessPoisoned
       THEN \* line 259: lock().unwrap() panics
            /\ last' = Completed("submit_response", [sig |-> bytes], "Panic", None)
            /\ Advance("submit_response", "Panic")
            /\ UNCHANGED <<in_process, genSince>>
       ELSE LET r == SubmitResponseResult(in_process, ParseSubmitted(bytes).v)
            IN  /\ in_process' = r.in_process
                /\ genSince' = (in_process # None
                                /\ r.in_process.v.session.state = "Signing")
                /\ last' = Completed("submit_response", [sig |-> bytes],
                                     r.res.kind, r.res.val)
                /\ Advance("submit_response", r.res.kind)
    /\ keyStoreCallers' = keyStoreCallers \cup SessionKeyStoreCalls("submit_response")
    /\ UNCHANGED <<engaged, engagedPoisoned, inProcessPoisoned, pc, derived, sigHeld>>
    /\ UNCHANGED <<walletVars, callVars, utilVars>>

----------------------------------------------------------------------------
(* MdlPresentationSession::terminate_session (holder.rs:280-289) *)

TerminationMessage == [tag |-> "SessionData", status |-> "SessionTermination"]

TerminateSession(t) ==
    /\ pc[t] = "idle"
    /\ last' = Completed("terminate_session", [none |-> TRUE], "Ok",
                         Some(TerminationMessage))
    /\ Advance("terminate_session", "Ok")
    /\ keyStoreCallers' = keyStoreCallers \cup SessionKeyStoreCalls("terminate_session")
    /\ UNCHANGED <<engaged, engagedPoisoned, in_process, inProcessPoisoned, pc, derived,
                   sigHeld, genSince>>
    /\ UNCHANGED <<walletVars, callVars, utilVars>>

----------------------------------------------------------------------------
(* The caller signs the payload with the key store (holder.rs:440-441) *)

\* The caller hands the payload generate_response has just returned to the key
\* store and keeps the signature bytes it gets back.
KeySign(enc) ==
    /\ last.op = "generate_response"
    /\ last.kind = "Ok"
    /\ sigHeld' = Some(SignatureBytes(last.val.v, enc))
    /\ keyStoreCallers' = keyStoreCallers \cup {"caller"}
    /\ UNCHANGED <<engaged, engagedPoisoned, in_process, inProcessPoisoned, pc, derived,
                   progress, clean, genSince, last>>
    /\ UNCHANGED <<walletVars, callVars, utilVars>>

----------------------------------------------------------------------------
(* The reader's check of a response (holder.rs:418-445) *)

\* reader::SessionManager::handle_response for the reader whose session has the
\* given transcript: the errors it reports.
ReaderErrors(transcript, response) ==
    IF response.transcript # transcript THEN {"decryption"}
    ELSE { response.docs[i].doc_type : i \in
             { j \in 1..Len(response.docs) :
                 response.docs[j].sig.over
                   # Some(Payload(response.transcript, response.docs[j].doc_type)) } }

----------------------------------------------------------------------------
(* The session: initial state and next-state relation *)

InitMdl ==
    /\ engaged = InitialEngaged
    /\ engagedPoisoned = FALSE
    /\ in_process = None
    /\ inProcessPoisoned = FALSE
    /\ pc = [t \in Threads |-> "idle"]
    /\ derived = [t \in Threads |-> UndecodableRequest]
    /\ sigHeld = None
    /\ keyStoreCallers = {}
    /\ progress = 0
    /\ clean = TRUE
    /\ genSince = FALSE
    /\ last = [op |-> "initialize", arg |-> [none |-> TRUE], kind |-> "Ok",
               val |-> None, tick |-> 0]

NextMdl ==
    \/ \E t \in Threads, req \in Requests : HandleRequestProcess(t, req)
    \/ \E t \in Threads, req \in Requests : HandleRequestPanics(t, req)
    \/ \E t \in Threads : HandleRequestStore(t)
    \/ \E t \in Threads, permitted \in PermittedItems : GenerateResponse(t, permitted)
    \/ \E t \in Threads, permitted \in PermittedItems : GenerateResponsePanics(t, permitted)
    \/ \E t \in Threads, bytes \in SubmitInputs : SubmitResponse(t, bytes)
    \/ \E t \in Threads : TerminateSession(t)
    \/ \E enc \in {"raw", "der"} : KeySign(enc)

----------------------------------------------------------------------------
(* The wallet service as login() sees it (wallet_service_client.rs:166-204) *)

\* The app attestation strings a caller can pass.
Attestations == {[text |-> "{\"keyAssertion\":\"a\"}", json |-> TRUE],
                 [text |-> "{\"keyAssertion\":", json |-> FALSE]}

\* The texts a 2xx body can hold, with what parsing them as a JWT gives: whether
\* the text is a JWS at all, its exp claim and its sub claim.
OutOfRange == [tag |-> "OutOfRange"]
Bodies ==
    { [text |-> "jwt.a", jws |-> TRUE, exp |-> Some(1), sub |-> Some("test_client_id")],
      [text |-> "jwt.b", jws |-> TRUE, exp |-> Some(2), sub |-> None],
      [text |-> "jwt.expired", jws |-> TRUE, exp |-> Some(0), sub |-> Some("old_client")],
      [text |-> "jwt.noexp", jws |-> TRUE, exp |-> None, sub |-> Some("test_client_id")],
      [text |-> "jwt.farexp", jws |-> TRUE, exp |-> OutOfRange, sub |-> None],
      [text |-> "not a jwt", jws |-> FALSE, exp |-> None, sub |-> None] }

\* What the HTTP exchange can come to.
Responses ==
    {[kind |-> "network_error", status |-> 0, readable |-> FALSE, body |-> None]}
    \cup {[kind |-> "http", status |-> st, readable |-> TRUE,
           body |-> Some([text |-> "Internal Server Error", jws |-> FALSE,
                          exp |-> None, sub |-> None])] : st \in {400, 500}}
    \cup {[kind |-> "http", status |-> 200, readable |-> FALSE, body |-> None]}
    \cup {[kind |-> "http", status |-> 200, readable |-> TRUE, body |-> Some(b)] :
            b \in Bodies}

\* A status check that would let redirections through.
IsSuccessOrRedirect(status) == status >= 200 /\ status <= 399

\* StatusCode::is_success
IsSuccess(status) == status >= 200 /\ status <= 299

\* create_token_info (lines 50-78)
CreateTokenInfo(body) ==
    IF ~body.jws THEN Err("JwtParseError")
    ELSE IF body.exp = None THEN Err("JwtParseError")
    ELSE IF body.exp = OutOfRange THEN Err("JwtParseError")
    ELSE Ok(Some([token |-> body.text,
                  claims |-> [exp |-> body.exp, sub |-> body.sub],
                  expires_at |-> body.exp.v]))

\* login() from the response to the value create_token_info gives (lines 179-198).
LoginOutcome(resp) ==
    IF resp.kind = "network_error" THEN Err("NetworkError")
    ELSE IF ~IsSuccess(resp.status) THEN Err("ServerError")
    ELSE IF ~resp.readable THEN Err("ResponseError")
    ELSE CreateTokenInfo(resp.body.v)

----------------------------------------------------------------------------
(* The readers of the token slot (lines 98-135, 207-221) *)

GetToken == IF token_info = None THEN None ELSE Some(token_info.v.token)

GetClientId == IF token_info = None THEN None ELSE token_info.v.claims.sub

IsTokenValid == token_info # None /\ token_info.v.expires_at > now

\* A header built without the scheme prefix.
GetAuthHeaderBare ==
    IF token_info # None /\ token_info.v.expires_at > now
    THEN Ok(Some(token_info.v.token))
    ELSE Err("InvalidToken")


GetAuthHeader ==
    IF token_info # None /\ token_info.v.expires_at > now
    THEN Ok(Some("Bearer " \o token_info.v.token))
    ELSE Err("InvalidToken")

----------------------------------------------------------------------------
(* WalletServiceClient::login (lines 166-204) *)

LoginReturned(c, kind, token) ==
    [task |-> c, kind |-> kind, token |-> token, stored |-> cstored[c],
     intact |-> slotOwner = c]

\* An error path that would clear the slot on its way out.
SlotAfterFailureCleared(slot) == None

\* Lines 168-198: every `?` and the `return Err` leave login() before the lock
\* of line 200 is taken, so the slot holds what it held.
SlotAfterFailure(slot) == slot

\* Lines 168-178: parse the attestation, send the request.
LoginSend(c, att) ==
    /\ cpc[c] = "idle"
    /\ IF att.json
       THEN /\ cpc' = [cpc EXCEPT ![c] = "sent"]
            /\ UNCHANGED <<lastLogin, token_info>>
       ELSE /\ lastLogin' = Some(LoginReturned(c, "InvalidJson", None))
            /\ token_info' = SlotAfterFailure(token_info)
            /\ UNCHANGED cpc
    /\ UNCHANGED <<now, cinfo, cstored, slotOwner>>
    /\ UNCHANGED <<mdlVars, callVars, utilVars>>

\* Lines 179-198: the response arrives, the body is read and parsed.
LoginRespond(c, resp) ==
    /\ cpc[c] = "sent"
    /\ LET r == LoginOutcome(resp)
       IN  IF r.kind = "Ok"
           THEN /\ cpc' = [cpc EXCEPT ![c] = "store"]
                /\ cinfo' = [cinfo EXCEPT ![c] = r.val]
                /\ UNCHANGED <<lastLogin, token_info>>
           ELSE /\ cpc' = [cpc EXCEPT ![c] = "idle"]
                /\ lastLogin' = Some(LoginReturned(c, r.kind, None))
                /\ token_info' = SlotAfterFailure(token_info)
                /\ UNCHANGED cinfo
    /\ UNCHANGED <<now, cstored, slotOwner>>
    /\ UNCHANGED <<mdlVars, callVars, utilVars>>

\* A store that would write the token field only, leaving claims and expiry.
SlotAfterStoreTorn(slot, info) ==
    IF slot = None THEN info ELSE Some([slot.v EXCEPT !.token = info.v.token])

\* Lines 200-202: what the slot holds after the store of info.
SlotAfterStore(slot, info) == info

\* Lines 200-202: lock the slot and replace its content.
LoginStore(c) ==
    /\ cpc[c] = "store"
    /\ token_info' = SlotAfterStore(token_info, cinfo[c])
    /\ cstored' = [cstored EXCEPT ![c] = Some(token_info'.v.token)]
    /\ slotOwner' = c
    /\ lastLogin' = IF lastLogin = None THEN None
                    ELSE Some([lastLogin.v EXCEPT !.intact = FALSE])
    /\ cpc' = [cpc EXCEPT ![c] = "stored"]
    /\ UNCHANGED <<now, cinfo>>
    /\ UNCHANGED <<mdlVars, callVars, utilVars>>

\* Line 203: Ok(token)
LoginReturn(c) ==
    /\ cpc[c] = "stored"
    /\ lastLogin' = Some(LoginReturned(c, "Ok", Some(cinfo[c].v.token)))
    /\ cpc' = [cpc EXCEPT ![c] = "idle"]
    /\ cinfo' = [cinfo EXCEPT ![c] = None]
    /\ cstored' = [cstored EXCEPT ![c] = None]
    /\ UNCHANGED <<token_info, now, slotOwner>>
    /\ UNCHANGED <<mdlVars, callVars, utilVars>>

\* Time passes.
Tick ==
    /\ now < MaxTime
    /\ now' = now + 1
    /\ UNCHANGED <<token_info, cpc, cinfo, cstored, slotOwner, lastLogin>>
    /\ UNCHANGED <<mdlVars, callVars, utilVars>>

----------------------------------------------------------------------------
(* Initial state and the specifications *)

InitWallet ==
    /\ token_info = None
    /\ now = 0
    /\ cpc = [c \in Clients |-> "idle"]
    /\ cinfo = [c \in Clients |-> None]
    /\ cstored = [c \in Clients |-> None]
    /\ slotOwner = 0
    /\ lastLogin = None

\* No stateless operation has been called yet.
InitCalls ==
    /\ httpCall = None
    /\ matchCall = None
    /\ cwtCall = None
    /\ dcCall = None
    /\ sigCall = None
    /\ cborCall = None
    /\ vcCall = None
    /\ permCall = None

Init == InitMdl /\ InitWallet /\ InitCalls

NextWallet ==
    \/ \E c \in Clients, att \in Attestations : LoginSend(c, att)
    \/ \E c \in Clients, resp \in Responses : LoginRespond(c, resp)
    \/ \E c \in Clients : LoginStore(c)
    \/ \E c \in Clients : LoginReturn(c)
    \/ Tick

SpecMdl == Init /\ [][NextMdl]_vars

SpecWallet == Init /\ [][NextWallet]_vars

----------------------------------------------------------------------------
(* Claims about the mDL holder session (checked under SpecMdl) *)

\* A session call returns in this step.
CallReturned == last'.tick # last.tick

\* The calls the specification names as out of order, for a session whose
\* in-order protocol has advanced n steps.
OutOfOrder(op, n) ==
    \/ op \in {"generate_response", "submit_response"} /\ n = 0
    \/ op = "submit_response" /\ n = 1
    \/ op = "submit_response" /\ n = 3
    \/ op = "handle_request" /\ n >= 2
    \/ op = "terminate_session" /\ n < 3

C2_HandleRequestAtomic ==
    [][(CallReturned
        /\ last'.op \in {"generate_response", "submit_response"}
        /\ in_process' # in_process)
       => \A t \in Threads : pc[t] = "idle"]_vars

\* The elements of doc type d an items_request asks for, and the elements a
\* permitted_items map permits.
RequestedOf(items, d) ==
    UNION { items[i].elements : i \in { j \in 1..Len(items) : items[j].doc_type = d } }
PermittedOf(permitted, d) ==
    UNION { e.elements : e \in { x \in permitted : x.doc_type = d } }

\* C3 as stated: in a session driven in order, with the key store's signature
\* over the returned payload, submit_response returns the response, the response
\* discloses only requested and permitted elements, and the reader finds no error.
C3_InOrderPresentation ==
    [][(CallReturned
        /\ last'.op = "submit_response"
        /\ clean /\ progress = 2
        /\ sigHeld # None
        /\ last'.arg.sig = sigHeld.v)
       => /\ last'.kind = "Ok"
          /\ \A i \in 1..Len(last'.val.v.docs) :
                last'.val.v.docs[i].disclosed \subseteq
                    RequestedOf(in_process.v.items_request,
                                last'.val.v.docs[i].doc_type)
                    \cap PermittedOf(last.arg.permitted, last'.val.v.docs[i].doc_type)
          /\ ReaderErrors(in_process.v.session.transcript, last'.val.v) = {}
    ]_vars

\* C4: a successful handle_request leaves in in_process the session derived from
\* its request and the engaged state of initialize, with the request's
\* items_request, whatever was there before; a failed one leaves in_process as it
\* was; and engaged never changes.
C4_HandleRequestStores ==
    [][/\ engaged' = engaged
       /\ engaged = InitialEngaged
       /\ (CallReturned /\ last'.op = "handle_request" /\ last'.kind = "Ok")
             => /\ in_process' # None
                /\ in_process'.v.items_request = last'.arg.req.items
                /\ in_process'.v.session.transcript = last'.arg.req.id
                /\ in_process'.v.session.docs = InitialEngaged.docs
                /\ in_process'.v.session.state = "AwaitingRequest"
       /\ (CallReturned /\ last'.op = "handle_request" /\ last'.kind # "Ok")
             => in_process' = in_process
    ]_vars

\* C4's case: a handle_request has replaced the record of an earlier one, on
\* which a response had been prepared.
C4_Witness ==
    /\ last.op = "handle_request"
    /\ last.kind = "Ok"
    /\ last.arg.req.id = 2
    /\ progress >= 2
    /\ in_process.v.session.transcript = 2
    /\ in_process.v.session.state = "AwaitingRequest"

\* C5 as stated: submit_response rejects the submitted bytes with
\* InvalidSignature exactly when they parse neither as a raw 64-byte signature
\* nor as a DER signature.
C5_AcceptsRawOrDer ==
    [][(CallReturned /\ last'.op = "submit_response")
       => (last'.kind = "InvalidSignature"
             <=> (FromSlice(last'.arg.sig) = None /\ FromDer(last'.arg.sig) = None))
    ]_vars

\* C6 as stated: on a poisoned in_process mutex generate_response and
\* submit_response (given bytes that parse) return SignatureError::Generic, and a
\* handle_request that meets a poisoned mutex returns RequestError::Generic.
C6_PoisonGivesGeneric ==
    [][(CallReturned /\ inProcessPoisoned)
       => /\ last'.op = "generate_response" => last'.kind = "Generic"
          /\ (last'.op = "submit_response" /\ FromSlice(last'.arg.sig) # None)
                => last'.kind = "Generic"
          /\ (last'.op = "handle_request" /\ engagedPoisoned' = engagedPoisoned)
                => last'.kind = "Generic"
    ]_vars

----------------------------------------------------------------------------
(* Claims about the wallet-service client (checked under SpecWallet) *)

\* The complete TokenInfo create_token_info builds from body b.
TokenInfoOf(b) ==
    [token |-> b.text, claims |-> [exp |-> b.exp, sub |-> b.sub],
     expires_at |-> b.exp.v]

\* The bodies create_token_info accepts.
AcceptedBodies == {b \in Bodies : CreateTokenInfo(b).kind = "Ok"}

\* C9: after login() returned Ok(token) for a JWT whose exp is in the future,
\* with no other login storing in between, get_token() is that token,
\* is_token_valid() is true, get_client_id() is the JWT's sub claim and
\* get_auth_header() is "Bearer " followed by the token; before any successful
\* login get_auth_header() fails with InvalidToken.
C9_GettersAfterLogin ==
    /\ (/\ lastLogin # None
        /\ lastLogin.v.kind = "Ok"
        /\ lastLogin.v.intact)
          => \A b \in Bodies :
                (Some(b.text) = lastLogin.v.token /\ b.exp # None
                 /\ b.exp # OutOfRange /\ b.exp.v > now)
                   => /\ GetToken = lastLogin.v.token
                      /\ IsTokenValid
                      /\ GetClientId = b.sub
                      /\ GetAuthHeader = Ok(Some("Bearer " \o b.text))
    /\ slotOwner = 0 => GetAuthHeader = Err("InvalidToken")

\* C9's case: the last login returned Ok("jwt.a"), nothing was stored since,
\* the token has not expired and the getters are being read.
C9_Witness ==
    /\ lastLogin # None
    /\ lastLogin.v.kind = "Ok"
    /\ lastLogin.v.intact
    /\ lastLogin.v.token = Some("jwt.a")
    /\ now = 0
    /\ GetAuthHeader = Ok(Some("Bearer jwt.a"))
    /\ GetClientId = Some("test_client_id")

\* C10: under every interleaving of logins the slot holds nothing or the
\* complete TokenInfo of one JWT, and a login that returns Ok(token) stored that
\* token before returning.
C10_AtomicReplace ==
    /\ token_info = None \/ \E b \in AcceptedBodies : token_info = Some(TokenInfoOf(b))
    /\ (lastLogin # None /\ lastLogin.v.kind = "Ok")
          => lastLogin.v.stored = lastLogin.v.token

\* C10's case: two logins interleaved; one returned Ok(token) after storing it
\* and the other has replaced the slot with a different JWT since.
C10_Witness ==
    /\ lastLogin # None
    /\ lastLogin.v.kind = "Ok"
    /\ ~lastLogin.v.intact
    /\ lastLogin.v.stored = lastLogin.v.token
    /\ token_info # None
    /\ Some(token_info.v.token) # lastLogin.v.token
    /\ slotOwner # lastLogin.v.task

\* The error kinds login() can return.
LoginFailureKinds ==
    {"InvalidJson", "NetworkError", "ServerError", "ResponseError", "JwtParseError"}

\* The login() call of task c returns an error in this step: either its request
\* had been sent and the call is over without reaching the store, or it was
\* turned down on its attestation before sending anything.
LoginFailsIn(c) ==
    \/ cpc[c] = "sent" /\ cpc'[c] = "idle"
    \/ /\ cpc' = cpc
       /\ lastLogin' # lastLogin
       /\ lastLogin'.v.task = c
       /\ lastLogin'.v.kind = "InvalidJson"

\* What a failing return of task c leaves behind.
FailedLoginLeavesSlot(c) ==
    /\ lastLogin' # None
    /\ lastLogin'.v.task = c
    /\ lastLogin'.v.kind \in LoginFailureKinds
    /\ lastLogin'.v.token = None
    /\ lastLogin'.v.stored = None
    /\ token_info' = token_info
    /\ lastLogin'.v.kind = "InvalidJson" <=> cpc[c] = "idle"

\* C28: a login() that fails, for each kind of failure (InvalidJson before any
\* request is sent, NetworkError, ServerError, ResponseError, JwtParseError),
\* has written nothing to the token slot and leaves it holding what it held.
C28_FailedLoginKeepsSlot ==
    [][\A c \in Clients : LoginFailsIn(c) => FailedLoginLeavesSlot(c)]_vars

\* C28's case: a login stored a token, a later login got a success status with
\* a body that is no JWT and failed, and the slot still holds the first token.
C28_Witness ==
    /\ lastLogin # None
    /\ lastLogin.v.kind = "JwtParseError"
    /\ lastLogin.v.intact = FALSE
    /\ token_info # None
    /\ token_info.v.token = "jwt.a"

----------------------------------------------------------------------------
(* The HTTP operations of the haci clients
   (haci/wallet_service_client.rs:138-204, haci/issuance_service_client.rs:68-138) *)

\* Status codes a server can answer with.
HttpStatuses == {200, 201, 299, 300, 304, 400, 404, 500}

\* Response bodies: the text, what create_token_info makes of it (jws, exp, sub),
\* what it deserialises to as NewIssuanceResponse (issuance) and as
\* CheckStatusResponse (check).
HttpBody(text, jws, exp, issuance, check) ==
    [text |-> text, jws |-> jws, exp |-> exp, sub |-> None,
     issuance |-> issuance, check |-> check]

HttpBodies ==
    { HttpBody("", FALSE, None, None, None),
      HttpBody("nonce-123", FALSE, None, None, None),
      HttpBody("jwt.a", TRUE, Some(1), None, None),
      HttpBody("{\"id\":\"issuance-1\"}", FALSE, None, Some("issuance-1"), None),
      HttpBody("{\"state\":\"ReadyToProvision\",\"openid_credential_offer\":\"offer\"}",
               FALSE, None, None,
               Some([state |-> "ReadyToProvision", openid_credential_offer |-> "offer"])),
      HttpBody("{\"error\":\"Internal Server Error\"}", FALSE, None, None, None) }

\* What send() can come to: no response at all, or a status with a body whose
\* bytes can or cannot be read.
HttpResponses ==
    {[kind |-> "network_error", status |-> 0, readable |-> FALSE,
      body |-> HttpBody("", FALSE, None, None, None)]}
    \cup {[kind |-> "http", status |-> st, readable |-> rd, body |-> b] :
            st \in HttpStatuses, rd \in BOOLEAN, b \in HttpBodies}

\* ServerError { status, error_message }
ServerError(status, error_message) ==
    [kind |-> "ServerError", val |-> None, status |-> status,
     error_message |-> error_message]

\* response.text().await.unwrap_or_default()
TextOrDefault(resp) == IF resp.readable THEN resp.body.text ELSE ""

\* The prefix shared by the four operations: send, then the status check.
\* None when the response goes on to be parsed.
SendAndCheck(resp) ==
    IF resp.kind = "network_error" THEN Some(Err("NetworkError"))
    ELSE IF ~IsSuccess(resp.status)
         THEN Some(ServerError(resp.status, TextOrDefault(resp)))
    ELSE None

\* WalletServiceClient::nonce
NonceResult(resp) ==
    IF SendAndCheck(resp) # None THEN SendAndCheck(resp).v
    ELSE IF ~resp.readable THEN Err("ResponseError")
    ELSE Ok(Some(resp.body.text))

\* WalletServiceClient::login, as a function of the response
LoginResult(resp) ==
    IF SendAndCheck(resp) # None THEN SendAndCheck(resp).v
    ELSE IF ~resp.readable THEN Err("ResponseError")
    ELSE IF CreateTokenInfo(resp.body).kind # "Ok" THEN Err(CreateTokenInfo(resp.body).kind)
    ELSE Ok(Some(resp.body.text))

\* IssuanceServiceClient::new_issuance
NewIssuanceResult(resp) ==
    IF SendAndCheck(resp) # None THEN SendAndCheck(resp).v
    ELSE IF ~resp.readable \/ resp.body.issuance = None THEN Err("ResponseError")
    ELSE Ok(resp.body.issuance)

\* IssuanceServiceClient::check_status
CheckStatusResult(resp) ==
    IF SendAndCheck(resp) # None THEN SendAndCheck(resp).v
    ELSE IF ~resp.readable \/ resp.body.check = None THEN Err("ResponseError")
    ELSE Ok(resp.body.check)

HttpReturned(op, resp, res) == Some([op |-> op, resp |-> resp, res |-> res])

CallNonce(resp) ==
    /\ httpCall' = HttpReturned("nonce", resp, NonceResult(resp))
    /\ UNCHANGED <<mdlVars, walletVars, utilVars, matchCall, cwtCall, dcCall>>

CallLogin(resp) ==
    /\ httpCall' = HttpReturned("login", resp, LoginResult(resp))
    /\ UNCHANGED <<mdlVars, walletVars, utilVars, matchCall, cwtCall, dcCall>>

CallNewIssuance(resp) ==
    /\ httpCall' = HttpReturned("new_issuance", resp, NewIssuanceResult(resp))
    /\ UNCHANGED <<mdlVars, walletVars, utilVars, matchCall, cwtCall, dcCall>>

CallCheckStatus(resp) ==
    /\ httpCall' = HttpReturned("check_status", resp, CheckStatusResult(resp))
    /\ UNCHANGED <<mdlVars, walletVars, utilVars, matchCall, cwtCall, dcCall>>

NextHaci ==
    \/ \E resp \in HttpResponses : CallNonce(resp)
    \/ \E resp \in HttpResponses : CallLogin(resp)
    \/ \E resp \in HttpResponses : CallNewIssuance(resp)
    \/ \E resp \in HttpResponses : CallCheckStatus(resp)

SpecHaci == Init /\ [][NextHaci]_vars

\* C11: whenever the server answers with a non-2xx status, nonce(), login(),
\* new_issuance() and check_status() return ServerError carrying that status
\* code and the body text (the empty text when the body cannot be read), and
\* no success value.
C11_NonSuccessIsServerError ==
    (httpCall # None /\ httpCall.v.resp.kind = "http"
     /\ (httpCall.v.resp.status < 200 \/ httpCall.v.resp.status > 299))
       => /\ httpCall.v.res.kind = "ServerError"
          /\ httpCall.v.res.val = None
          /\ httpCall.v.res.status = httpCall.v.resp.status
          /\ httpCall.v.res.error_message =
                (IF httpCall.v.resp.readable THEN httpCall.v.resp.body.text ELSE "")

\* C11's case: new_issuance() was answered 500 with a body that would have
\* parsed as a success value, and returned ServerError with status and text.
C11_Witness ==
    /\ httpCall # None
    /\ httpCall.v.op = "new_issuance"
    /\ httpCall.v.resp.status = 500
    /\ httpCall.v.resp.readable
    /\ httpCall.v.resp.body.issuance = Some("issuance-1")
    /\ httpCall.v.res = ServerError(500, "{\"id\":\"issuance-1\"}")

----------------------------------------------------------------------------
(* DCQL matching (oid4vp/dc_api/requested_values.rs:17-149) *)

\* The most claims a query carries.
MaxClaims == 3

MdlNamespace == "org.iso.18013.5.1"
AamvaNamespace == "org.iso.18013.5.1.aamva"

\* An element identifier is its text split at "_": age_over_21 is
\* <<"age", "over", "21">>.
GivenName == <<"given", "name">>
FamilyName == <<"family", "name">>
MiddleName == <<"middle", "name">>
Portrait == <<"portrait">>
AgeOver(nn) == <<"age", "over", nn>>

\* The NN of age_over_NN, as text and as a number.
AgeWords == {"18", "20", "21", "65"}
Threshold(nn) ==
    CASE nn = "18" -> 18 [] nn = "20" -> 20 [] nn = "21" -> 21 [] nn = "65" -> 65

IsAgeOver(element) ==
    Len(element) = 3 /\ element[1] = "age" /\ element[2] = "over"
    /\ element[3] \in AgeWords

\* A text made of words and the separator between them.
Text(sep, words) == [sep |-> sep, words |-> words]

\* char::to_uppercase on the first letter of a word, the rest kept.
Capitalise(word) ==
    CASE word = "given" -> "Given" [] word = "family" -> "Family"
      [] word = "middle" -> "Middle" [] word = "name" -> "Name"
      [] word = "portrait" -> "Portrait"
      [] word = "age" -> "Age" [] word = "over" -> "Over"
      [] OTHER -> word

\* Lines 104-112: split("_"), capitalise each word, join(" ").
DisplayableName(element) ==
    Text(" ", [i \in DOMAIN element |-> Capitalise(element[i])])

\* str::starts_with("age_over_")
StartsWithAgeOver(text) ==
    /\ Len(text.words) >= 3
    /\ text.sep = "_"
    /\ text.words[1] = "age"
    /\ text.words[2] = "over"

\* A credential: its doc type and the elements it carries, in BTreeMap order.
Item(ns, element) == [ns |-> ns, element |-> element]
Credential(id, items) == [id |-> id, doc_type |-> MdlDocType, items |-> items]
Credentials ==
    { Credential("mdl-3-ages",
        <<Item(MdlNamespace, AgeOver("18")), Item(MdlNamespace, AgeOver("21")),
          Item(MdlNamespace, AgeOver("65")), Item(MdlNamespace, GivenName)>>),
      Credential("mdl-1-age",
        <<Item(MdlNamespace, AgeOver("21")), Item(MdlNamespace, GivenName)>>),
      Credential("mdl-no-age",
        <<Item(MdlNamespace, GivenName), Item(AamvaNamespace, GivenName)>>) }

\* calculate_age_over_mapping: for a carried age_over element, the identifiers
\* of the age_over_NN it also answers: those NN not carried for which its
\* threshold is the lowest carried one that is >= NN.
CarriedAges(credential) ==
    { credential.items[i].element[3] :
        i \in {j \in DOMAIN credential.items :
                 /\ credential.items[j].ns = MdlNamespace
                 /\ IsAgeOver(credential.items[j].element)} }

CalculateAgeOverMapping(credential, element) ==
    IF ~IsAgeOver(element) THEN {}
    ELSE { AgeOver(nn) : nn \in
             { n \in AgeWords \ CarriedAges(credential) :
                 /\ Threshold(element[3]) >= Threshold(n)
                 /\ \A c \in CarriedAges(credential) :
                       Threshold(c) >= Threshold(n)
                          => Threshold(c) >= Threshold(element[3]) } }

\* Line 43: the field id of the i-th carried element. The ids are random
\* UUIDs; only their order matters, and it is either that of the elements or
\* the reverse.
UuidOrders == {"asc", "desc"}
FieldId(credential, order, i) ==
    IF order = "asc" THEN i ELSE Len(credential.items) + 1 - i

\* Lines 34-67: elements_map.get(namespace).get(element_identifier)
ElementsMapGet(credential, order, ns, element) ==
    LET real == {i \in DOMAIN credential.items : credential.items[i] = Item(ns, element)}
        virtual == {i \in DOMAIN credential.items :
                      /\ ns = MdlNamespace
                      /\ credential.items[i].ns = MdlNamespace
                      /\ element \in CalculateAgeOverMapping(credential,
                                                             credential.items[i].element)}
    IN  IF real # {} THEN Some(FieldId(credential, order, CHOOSE i \in real : TRUE))
        ELSE IF virtual # {}
             THEN Some(FieldId(credential, order, CHOOSE i \in virtual : TRUE))
        ELSE None

\* Lines 32, 44-45: field_map
FieldMap(credential, order) ==
    [f \in {FieldId(credential, order, i) : i \in DOMAIN credential.items} |->
        credential.items[CHOOSE i \in DOMAIN credential.items :
                            FieldId(credential, order, i) = f]]

\* DcqlCredentialClaimsQueryPath
Str(v) == [tag |-> "String", v |-> v]
NotStr == [tag |-> "Null", v |-> ""]
ClaimPath(ns, element) == <<Str(ns), Str(element)>>

ClaimPaths ==
    { ClaimPath(MdlNamespace, GivenName), ClaimPath(MdlNamespace, FamilyName),
      ClaimPath(MdlNamespace, MiddleName), ClaimPath(AamvaNamespace, Portrait),
      ClaimPath(MdlNamespace, AgeOver("18")), ClaimPath(MdlNamespace, AgeOver("20")),
      ClaimPath(MdlNamespace, AgeOver("21")), ClaimPath(MdlNamespace, AgeOver("65")),
      <<NotStr, Str(GivenName)>>, <<Str(MdlNamespace), NotStr>>, <<Str(MdlNamespace)>> }

\* query.claims(): None, or the claims in order.
Queries == UNION {[1..n -> ClaimPaths] : n \in 0..MaxClaims}

\* query.meta().doctype_value
DoctypeValues == {None, Some(MdlDocType), Some(OtherDocType)}

\* BTreeMap::insert on a map held as a set of entries: an entry under the
\* same key is replaced.
MapInsert(map, k, v) == {e \in map : e.k # k} \cup {[k |-> k, v |-> v]}

\* Lines 114-124
RequestedField(id, element) ==
    [id |-> id, displayable_name |-> DisplayableName(element),
     selectively_disclosable |-> TRUE, required |-> TRUE]

\* Lines 72-126: the loop over the queried claims, from claim i on.
RECURSIVE CollectFields(_, _, _, _, _)
CollectFields(credential, order, claims, i, acc) ==
    IF i > Len(claims) THEN acc
    ELSE LET path == claims[i]
         IN  IF Len(path) < 1 \/ path[1].tag # "String"
             THEN CollectFields(credential, order, claims, i + 1, acc)
             ELSE IF Len(path) < 2 \/ path[2].tag # "String"
             THEN CollectFields(credential, order, claims, i + 1, acc)
             ELSE LET field_id == ElementsMapGet(credential, order, path[1].v, path[2].v)
                  IN  IF field_id = None
                      THEN CollectFields(credential, order, claims, i + 1,
                             [acc EXCEPT !.missing_fields =
                                MapInsert(@, path[1].v, path[2].v)])
                      ELSE CollectFields(credential, order, claims, i + 1,
                             [acc EXCEPT !.requested_fields =
                                MapInsert(@, field_id.v,
                                          RequestedField(field_id.v, path[2].v))])

\* Lines 128-141: into_values() in key order, keeping a field unless its
\* displayable name starts with "age_over_" and two such were seen already.
RECURSIVE FilterAgeOver(_, _, _, _)
FilterAgeOver(requested, k, last_k, seen) ==
    IF k > last_k THEN <<>>
    ELSE IF \A e \in requested : e.k # k
    THEN FilterAgeOver(requested, k + 1, last_k, seen)
    ELSE LET field == (CHOOSE e \in requested : e.k = k).v
         IN  IF StartsWithAgeOver(field.displayable_name)
             THEN IF seen + 1 < 3
                  THEN <<field>> \o FilterAgeOver(requested, k + 1, last_k, seen + 1)
                  ELSE FilterAgeOver(requested, k + 1, last_k, seen + 1)
             ELSE <<field>> \o FilterAgeOver(requested, k + 1, last_k, seen)

\* find_match (lines 17-149)
FindMatchResult(query, credential, order) ==
    IF query.doctype_value # None /\ query.doctype_value.v # credential.doc_type
    THEN Err("the request was not for an mDL")
    ELSE LET acc == CollectFields(credential, order, query.claims, 1,
                                  [requested_fields |-> {}, missing_fields |-> {}])
         IN  Ok(Some([credential_id |-> credential.id,
                      field_map |-> FieldMap(credential, order),
                      requested_fields |->
                          FilterAgeOver(acc.requested_fields, 1,
                                        Len(credential.items), 0),
                      missing_fields |-> acc.missing_fields]))

FindMatch(claims, doctype_value, credential, order) ==
    /\ LET query == [claims |-> claims, doctype_value |-> doctype_value]
       IN  matchCall' = Some([query |-> query, credential |-> credential,
                              order |-> order,
                              res |-> FindMatchResult(query, credential, order)])
    /\ UNCHANGED <<mdlVars, walletVars, utilVars, httpCall, cwtCall, dcCall>>

\* The caller is done with the RequestMatch.
DropMatch ==
    /\ matchCall # None
    /\ matchCall' = None
    /\ UNCHANGED <<mdlVars, walletVars, utilVars, httpCall, cwtCall, dcCall>>

\* One RequestMatch is built and used at a time.
NextMatch ==
    \/ /\ matchCall = None
       /\ \E claims \in Queries, doctype_value \in DoctypeValues,
             credential \in Credentials, order \in UuidOrders :
               FindMatch(claims, doctype_value, credential, order)
    \/ DropMatch

SpecMatch == Init /\ [][NextMatch]_vars

\* The requested fields of the last find_match whose element is an age_over_*.
AgeOverFields ==
    LET m == matchCall.v.res.val.v
    IN  {i \in DOMAIN m.requested_fields :
            IsAgeOver(m.field_map[m.requested_fields[i].id].element)}

\* C12 as stated: the requested_fields produced by find_match contain at most
\* two age_over_* elements, however many the query asks for.
C12_AtMostTwoAgeOver ==
    (matchCall # None /\ matchCall.v.res.kind = "Ok")
       => Cardinality(AgeOverFields) <= 2

\* The queried claims of the last find_match whose path has two string
\* components.
TwoStringClaims ==
    {i \in DOMAIN matchCall.v.query.claims :
        /\ Len(matchCall.v.query.claims[i]) = 2
        /\ matchCall.v.query.claims[i][1].tag = "String"
        /\ matchCall.v.query.claims[i][2].tag = "String"}

\* The queried path is answered by one of the requested fields.
InRequested(path) ==
    LET c == matchCall.v
        field_id == ElementsMapGet(c.credential, c.order, path[1].v, path[2].v)
    IN  /\ field_id # None
        /\ \E i \in DOMAIN c.res.val.v.requested_fields :
              c.res.val.v.requested_fields[i].id = field_id.v

\* The queried path is recorded among the missing fields.
InMissing(path) ==
    [k |-> path[1].v, v |-> path[2].v] \in matchCall.v.res.val.v.missing_fields

\* C13 as stated: every queried path with two string components ends up in
\* exactly one of requested_fields and missing_fields, so no missing element
\* is lost, also when several belong to the same namespace.
C13_MissingCollected ==
    (matchCall # None /\ matchCall.v.res.kind = "Ok")
       => \A i \in TwoStringClaims :
             InRequested(matchCall.v.query.claims[i])
                # InMissing(matchCall.v.query.claims[i])

----------------------------------------------------------------------------
(* Cwt parsing and verification (credential/cwt.rs:64-273) *)

\* How many root certificates the trusted bundle holds.
MaxRoots == 2

\* OffsetDateTime::now_utc() during the call.
CwtNow == 1

\* CwtError values; msg is the text the error carries or displays with.
CwtErr(kind) == [kind |-> kind, val |-> None, msg |-> <<>>]
Trust(msg) == [kind |-> "Trust", val |-> None, msg |-> msg]

\* The #[error(..)] text of the errors of validate_certificate_chain
\* (lines 375-402).
ErrorText(e) ==
    CASE e.kind = "RootCertificateExpired" -> "Root certificate expired"
      [] e.kind = "SignerCertificateExpired" -> "Signer certificate expired"
      [] e.kind = "RootCertificateInvalid" ->
            "Root certificate cannot be used for verifying certificate signatures"
      [] e.kind = "SignerCertificateInvalid" ->
            "Signer certificate cannot be used for verifying signatures"
      [] e.kind = "CwtSignatureVerification" -> "Failed to verify the CWT signature"
      [] e.kind = "SignerCertificateMismatch" ->
            "Signer certificate was not issued by the root"
      [] e.kind = "UnableToExtractExtensionsFromRootCertificate" ->
            "Unable to extract extensions from root certificate"
      [] e.kind = "UnableToExtractExtensionsFromSignerCertificate" ->
            "Unable to extract extensions from signer certificate"
      [] OTHER -> e.kind

\* Validity windows and key-usage extensions of a certificate.
Window(nb, na) == [not_before |-> nb, not_after |-> na]
Current == Window(0, 2)
Expired == Window(0, 0)
KeyUsages == {"keyCertSign", "digitalSignature", "none", "unreadable"}

\* helpers::check_validity
CheckValidity(validity) ==
    validity.not_before <= CwtNow /\ CwtNow <= validity.not_after

\* A signature: the key that made it and the bytes it was made over.
Sig(key, over) == [key |-> key, over |-> over]

\* Root certificates: subject, public key, validity, key usage.
Root(subject, key, validity, key_usage) ==
    [subject |-> subject, key |-> key, validity |-> validity, key_usage |-> key_usage]
RootCertificates ==
    { Root("CN=A", "ka", Current, "keyCertSign"),
      Root("CN=A", "ka", Expired, "keyCertSign"),
      Root("CN=A", "ka", Current, "digitalSignature"),
      Root("CN=A", "ka", Current, "unreadable"),
      Root("CN=A", "kb", Current, "keyCertSign"),
      Root("CN=B", "kc", Current, "keyCertSign") }

\* trusted_roots::trusted_roots(): the pinned bundle, in order.
TrustedRoots == [1..MaxRoots -> RootCertificates]

\* Signer certificates: the TBS part (issuer, public key, validity, key usage,
\* and the bytes it encodes to) and the signature over it.
Signer(issuer, validity, key_usage, signature) ==
    [issuer |-> issuer, key |-> "ks", validity |-> validity, key_usage |-> key_usage,
     tbs |-> "tbs", signature |-> signature]
SignerCertificates ==
    { Signer(issuer, validity, key_usage, signature) :
        issuer \in {"CN=A", "CN=C"},
        validity \in {Current, Expired},
        key_usage \in {"digitalSignature", "none", "unreadable"},
        signature \in {Sig("ka", "tbs"), Sig("kb", "tbs"), Sig("ka", "other tbs")} }

\* Crypto::p256_verify(certificate, payload, signature)
P256Verify(certificate, payload, signature) ==
    signature.key = certificate.key /\ signature.over = payload

\* The claims of a CWT that matter here: exp (absent, a date, or a value that
\* is no date), nbf and iat, and the Issuer claim (absent, a text, or not a text).
Malformed == [tag |-> "Malformed"]
ExpValues == {None, Some(0), Some(1), Some(2), Malformed}
OtherDates == {None, Some(2)}
Claims(exp, nbfiat, issuer) ==
    [exp |-> exp, nbf |-> nbfiat, iat |-> nbfiat, issuer |-> issuer]

\* What the issuer text resolves to as a DID: a P-256 key, a key of another
\* kind, or nothing.
DidTexts == {"did:signing-key", "did:other-key", "did:not-p256", "not a did"}
ResolveDid(text) ==
    CASE text = "did:signing-key" -> Some([p256 |-> TRUE, key |-> "ks"])
      [] text = "did:other-key" -> Some([p256 |-> TRUE, key |-> "kx"])
      [] text = "did:not-p256" -> Some([p256 |-> FALSE, key |-> "ke"])
      [] OTHER -> None
NonText == [tag |-> "Integer"]
IssuerClaims == {None, NonText} \cup {Some(t) : t \in DidTexts}

\* A parsed Cwt: its claims, the x5chain header of the COSE message (absent,
\* bytes that are no certificate, or the signer certificate) and the key the
\* COSE signature was made with.
NotACertificate == [tag |-> "NotACertificate"]
CwtOf(claims, x5chain, signed_by) ==
    [claims |-> claims, x5chain |-> x5chain, signed_by |-> signed_by]

\* The Cwts verified: with a signer certificate, and without one.
CwtsWithCertificate ==
    { CwtOf(Claims(exp, nbfiat, issuer), Some(cert), k) :
        exp \in ExpValues, nbfiat \in OtherDates,
        issuer \in {None, Some("did:signing-key")},
        cert \in SignerCertificates, k \in {"ks", "kx"} }
CwtsWithoutCertificate ==
    { CwtOf(Claims(exp, nbfiat, issuer), x, k) :
        exp \in ExpValues, nbfiat \in OtherDates, issuer \in IssuerClaims,
        x \in {None, NotACertificate}, k \in {"ks", "kx"} }

\* A claim check that would let every exp through.
ValidateClaimsLenient(cwt) == Ok(None)

\* validate_claims (lines 250-273)
ValidateClaims(cwt) ==
    IF cwt.claims.exp = None THEN Ok(None)
    ELSE IF cwt.claims.exp = Malformed THEN CwtErr("MalformedClaim")
    ELSE IF cwt.claims.exp.v < CwtNow THEN CwtErr("CwtExpired")
    ELSE Ok(None)

\* claims() (lines 48-50): every claim is reported under its name.
ClaimsReported(cwt) ==
    [name \in {n \in {"Expires", "Not Before", "Issued", "Issuer"} :
                 CASE n = "Expires" -> cwt.claims.exp # None
                   [] n = "Not Before" -> cwt.claims.nbf # None
                   [] n = "Issued" -> cwt.claims.iat # None
                   [] OTHER -> cwt.claims.issuer # None} |->
        CASE name = "Expires" -> cwt.claims.exp
          [] name = "Not Before" -> cwt.claims.nbf
          [] name = "Issued" -> cwt.claims.iat
          [] OTHER -> cwt.claims.issuer]

\* helpers::get_signer_certificate
GetSignerCertificate(cwt) ==
    IF cwt.x5chain = None \/ cwt.x5chain = NotACertificate THEN None ELSE cwt.x5chain

\* A chain validation that would not look at the validity windows.
ValidateCertificateChainAnyTime(cwt, root, signer) ==
    IF root.key_usage # "keyCertSign" THEN CwtErr("RootCertificateInvalid")
    ELSE IF ~P256Verify(root, signer.tbs, signer.signature)
    THEN CwtErr("CwtSignatureVerification")
    ELSE IF signer.key_usage # "digitalSignature" THEN CwtErr("SignerCertificateInvalid")
    ELSE IF cwt.signed_by # signer.key THEN CwtErr("CwtSignatureVerification")
    ELSE Ok(None)

\* validate_certificate_chain (lines 139-219)
ValidateCertificateChain(cwt, root, signer) ==
    IF ~CheckValidity(root.validity) THEN CwtErr("RootCertificateExpired")
    ELSE IF root.key_usage = "unreadable"
    THEN CwtErr("UnableToExtractExtensionsFromRootCertificate")
    ELSE IF root.key_usage # "keyCertSign" THEN CwtErr("RootCertificateInvalid")
    ELSE IF root.subject # signer.issuer THEN CwtErr("SignerCertificateMismatch")
    ELSE IF ~P256Verify(root, signer.tbs, signer.signature)
    THEN CwtErr("CwtSignatureVerification")
    ELSE IF ~CheckValidity(signer.validity) THEN CwtErr("SignerCertificateExpired")
    ELSE IF signer.key_usage = "unreadable"
    THEN CwtErr("UnableToExtractExtensionsFromSignerCertificate")
    ELSE IF signer.key_usage # "digitalSignature" THEN CwtErr("SignerCertificateInvalid")
    ELSE IF cwt.signed_by # signer.key THEN CwtErr("CwtSignatureVerification")
    ELSE Ok(None)

\* validate_using_issuer_did (lines 221-248)
ValidateUsingIssuerDid(cwt, issuer_did) ==
    IF ResolveDid(issuer_did) = None THEN Trust(<<"Failed to resolve issuer DID">>)
    ELSE IF ~ResolveDid(issuer_did).v.p256 THEN CwtErr("Internal")
    ELSE IF cwt.signed_by # ResolveDid(issuer_did).v.key
    THEN CwtErr("CwtSignatureVerification")
    ELSE Ok(None)

\* Lines 117-121: the roots whose subject is the signer's issuer, in order.
CandidateRoots(roots, signer) ==
    SelectSeq(roots, LAMBDA cert : cert.subject = signer.issuer)

\* Lines 122-128: the fold over the candidates from the i-th on. An error
\* string is held as the pieces it is concatenated from.
Separator == "\n--------------\n"

\* A fold that would stop at the first candidate.
FoldRootsFirstOnly(cwt, candidates, signer, i, res) ==
    IF Len(candidates) = 0 THEN res
    ELSE IF ValidateCertificateChain(cwt, candidates[1], signer).kind = "Ok"
    THEN Ok(None)
    ELSE [kind |-> "Err", val |-> None,
          msg |-> res.msg \o <<Separator,
                               ErrorText(ValidateCertificateChain(cwt, candidates[1],
                                                                  signer))>>]

RECURSIVE FoldRoots(_, _, _, _, _)
FoldRoots(cwt, candidates, signer, i, res) ==
    IF i > Len(candidates) THEN res
    ELSE IF res.kind = "Ok"
    THEN FoldRoots(cwt, candidates, signer, i + 1, Ok(None))
    ELSE LET r == ValidateCertificateChain(cwt, candidates[i], signer)
         IN  IF r.kind = "Ok"
             THEN FoldRoots(cwt, candidates, signer, i + 1, Ok(None))
             ELSE FoldRoots(cwt, candidates, signer, i + 1,
                    [kind |-> "Err", val |-> None,
                     msg |-> res.msg \o <<Separator, ErrorText(r)>>])

NotIssuedByRoot == "signer certificate was not issued by the root"

\* A validation that would go by the issuer DID whenever there is one.
ValidateDidFirst(cwt, roots) ==
    IF ValidateClaims(cwt).kind # "Ok"
    THEN [res |-> ValidateClaims(cwt), path |-> "claims"]
    ELSE IF cwt.claims.issuer # None /\ cwt.claims.issuer # NonText
    THEN [res |-> ValidateUsingIssuerDid(cwt, cwt.claims.issuer.v), path |-> "did"]
    ELSE IF GetSignerCertificate(cwt) = None
    THEN [res |-> Trust(<<"no signer certificate or issuer DID found">>), path |-> "none"]
    ELSE [res |-> Trust(<<NotIssuedByRoot>>), path |-> "x509"]

\* validate (lines 99-137). path records the branch that gave the result.
Validate(cwt, roots) ==
    IF ValidateClaims(cwt).kind # "Ok"
    THEN [res |-> ValidateClaims(cwt), path |-> "claims"]
    ELSE IF GetSignerCertificate(cwt) = None
    THEN IF cwt.claims.issuer # None /\ cwt.claims.issuer # NonText
         THEN [res |-> ValidateUsingIssuerDid(cwt, cwt.claims.issuer.v), path |-> "did"]
         ELSE [res |-> Trust(<<"no signer certificate or issuer DID found">>),
               path |-> "none"]
    ELSE LET signer == GetSignerCertificate(cwt).v
             folded == FoldRoots(cwt, CandidateRoots(roots, signer), signer, 1,
                                 [kind |-> "Err", val |-> None, msg |-> <<"\n">>])
         IN  [res |-> IF folded.kind = "Ok" THEN Ok(None)
                      ELSE IF folded.msg = <<"\n">> THEN Trust(<<NotIssuedByRoot>>)
                      ELSE Trust(folded.msg),
              path |-> "x509"]

\* The payloads given to from_base10: how far the decoding gets, and the
\* claims the CoseSign1 holds.
DecodeSteps ==
    {"not utf8", "no 9 prefix", "not decimal", "not deflate", "not CoseSign1",
     "claims unreadable", "no payload", "decodes"}
Payloads ==
    { [decode |-> d, cwt |-> CwtOf(Claims(exp, nbfiat, None), None, "ks")] :
        d \in DecodeSteps, exp \in ExpValues, nbfiat \in OtherDates }

\* from_base10 (lines 70-97)
FromBase10(payload) ==
    CASE payload.decode = "not utf8" -> CwtErr("CwsPayloadDecode")
      [] payload.decode = "no 9 prefix" -> CwtErr("Base10Decode")
      [] payload.decode = "not decimal" -> CwtErr("Base10Decode")
      [] payload.decode = "not deflate" -> CwtErr("Decompression")
      [] payload.decode = "not CoseSign1" -> CwtErr("CborDecoding")
      [] payload.decode = "claims unreadable" -> CwtErr("ClaimsRetrieval")
      [] payload.decode = "no payload" -> CwtErr("EmptyPayload")
      [] OTHER -> Ok(Some(payload.cwt))

\* Cwt::new_from_base10 / TryFrom<Credential>
ParseCwt(payload) ==
    /\ cwtCall' = Some([op |-> "from_base10", payload |-> payload,
                        res |-> FromBase10(payload)])
    /\ UNCHANGED <<mdlVars, walletVars, utilVars, httpCall, matchCall, dcCall>>

\* Cwt::verify (lines 64-66)
VerifyCwt(cwt, roots) ==
    /\ cwtCall' = Some([op |-> "verify", cwt |-> cwt, roots |-> roots,
                        res |-> Validate(cwt, roots).res,
                        path |-> Validate(cwt, roots).path,
                        claims |-> ClaimsReported(cwt)])
    /\ UNCHANGED <<mdlVars, walletVars, utilVars, httpCall, matchCall, dcCall>>

\* The caller is done with the result.
DropCwt ==
    /\ cwtCall # None
    /\ cwtCall' = None
    /\ UNCHANGED <<mdlVars, walletVars, utilVars, httpCall, matchCall, dcCall>>

\* One result is held at a time.
NextCwt ==
    \/ /\ cwtCall = None
       /\ \E payload \in Payloads : ParseCwt(payload)
    \/ /\ cwtCall = None
       /\ \E cwt \in CwtsWithCertificate, roots \in TrustedRoots : VerifyCwt(cwt, roots)
    \/ /\ cwtCall = None
       /\ \E cwt \in CwtsWithoutCertificate :
             VerifyCwt(cwt, [i \in 1..MaxRoots |-> Root("CN=A", "ka", Current, "keyCertSign")])
    \/ DropCwt

SpecCwt == Init /\ [][NextCwt]_vars

----------------------------------------------------------------------------
(* Claims about Cwt (checked under SpecCwt) *)

\* The last call was verify() on a Cwt whose exp is absent or not in the past.
VerifiedPastClaims ==
    /\ cwtCall # None
    /\ cwtCall.v.op = "verify"
    /\ \/ cwtCall.v.cwt.claims.exp = None
       \/ /\ cwtCall.v.cwt.claims.exp # Malformed
          /\ cwtCall.v.cwt.claims.exp.v >= CwtNow

\* The COSE message of the last verify() carries a signer certificate.
CarriesCertificate ==
    cwtCall.v.cwt.x5chain # None /\ cwtCall.v.cwt.x5chain # NotACertificate

\* The claims of the last verify() hold a text Issuer claim.
HasTextIssuer ==
    cwtCall.v.cwt.claims.issuer # None /\ cwtCall.v.cwt.claims.issuer # NonText

\* C14: verification selects the trust path in a fixed order: with a signer
\* certificate the X.509 chain is validated and its result is final (the
\* Issuer claim plays no part); otherwise with a text Issuer claim the DID is
\* resolved and the signature verified directly; otherwise it fails with the
\* Trust error "no signer certificate or issuer DID found".
C14_TrustPathOrder ==
    VerifiedPastClaims =>
       LET c == cwtCall.v
       IN  /\ CarriesCertificate
                => /\ c.path = "x509"
                   /\ c.res.kind \in {"Ok", "Trust"}
                   /\ c.res = Validate([c.cwt EXCEPT !.claims.issuer = None], c.roots).res
           /\ (~CarriesCertificate /\ HasTextIssuer)
                => /\ c.path = "did"
                   /\ c.res = ValidateUsingIssuerDid(c.cwt, c.cwt.claims.issuer.v)
           /\ (~CarriesCertificate /\ ~HasTextIssuer)
                => /\ c.path = "none"
                   /\ c.res = Trust(<<"no signer certificate or issuer DID found">>)

\* C14's case: a signer certificate is present whose chain does not validate,
\* and the claims hold an issuer DID under which the signature would verify;
\* the chain's failure is the result.
C14_Witness ==
    /\ VerifiedPastClaims
    /\ CarriesCertificate
    /\ cwtCall.v.cwt.claims.issuer = Some("did:signing-key")
    /\ cwtCall.v.cwt.signed_by = "ks"
    /\ cwtCall.v.path = "x509"
    /\ cwtCall.v.res.kind = "Trust"

\* The positions in the bundle of the roots whose subject is the signer's issuer.
CandidatePositions ==
    {i \in DOMAIN cwtCall.v.roots :
        cwtCall.v.roots[i].subject = cwtCall.v.cwt.x5chain.v.issuer}

\* The chain through the root at position i validates.
ChainValidates(i) ==
    ValidateCertificateChain(cwtCall.v.cwt, cwtCall.v.roots[i],
                             cwtCall.v.cwt.x5chain.v).kind = "Ok"

\* C15: chain validation succeeds if and only if some trusted root whose
\* subject is the signer's issuer validates the chain, whatever the order of
\* the roots; otherwise the error trail holds exactly one error per candidate
\* root, each after a separator, and when no root matches the error says the
\* signer certificate was not issued by a root.
C15_EveryCandidateRoot ==
    (VerifiedPastClaims /\ CarriesCertificate) =>
       LET c == cwtCall.v
           cands == CandidateRoots(c.roots, c.cwt.x5chain.v)
       IN  /\ (\E i \in CandidatePositions : ChainValidates(i)) <=> c.res.kind = "Ok"
           /\ Len(cands) = Cardinality(CandidatePositions)
           /\ (CandidatePositions = {}) => c.res = Trust(<<NotIssuedByRoot>>)
           /\ (CandidatePositions # {} /\ c.res.kind # "Ok")
                => /\ c.res.kind = "Trust"
                   /\ Len(c.res.msg) = 1 + 2 * Len(cands)
                   /\ \A j \in 1..Len(cands) :
                         /\ c.res.msg[2 * j] = Separator
                         /\ c.res.msg[2 * j + 1] =
                               ErrorText(ValidateCertificateChain(c.cwt, cands[j],
                                                                  c.cwt.x5chain.v))

\* C15's case: two roots match the signer's issuer, the chain through the
\* first does not validate, the chain through the second does, and
\* verification succeeds.
C15_Witness ==
    /\ VerifiedPastClaims
    /\ CarriesCertificate
    /\ CandidatePositions = {1, 2}
    /\ ~ChainValidates(1)
    /\ ChainValidates(2)
    /\ cwtCall.v.res.kind = "Ok"

\* A CWT whose two-certificate chain validates: the signer is issued by the
\* one trusted root of subject CN=A, both are valid now, the root has
\* keyCertSign and the signer digitalSignature, and the signatures are correct.
GoodRoot == Root("CN=A", "ka", Current, "keyCertSign")
GoodSigner == Signer("CN=A", Current, "digitalSignature", Sig("ka", "tbs"))
BundleWith(root) ==
    [i \in 1..MaxRoots |->
        IF i = 1 THEN root ELSE Root("CN=B", "kc", Current, "keyCertSign")]
ChainCase(root, signer, signed_by, kind) ==
    [cwt |-> CwtOf(Claims(Some(2), None, None), Some(signer), signed_by),
     roots |-> BundleWith(root), kind |-> kind]

\* The chain above with exactly one fault introduced, and the error kind of
\* validate_certificate_chain that belongs to the fault.
SingleFaults ==
    { ChainCase([GoodRoot EXCEPT !.validity = Expired], GoodSigner, "ks",
                "RootCertificateExpired"),
      ChainCase([GoodRoot EXCEPT !.key_usage = "digitalSignature"], GoodSigner, "ks",
                "RootCertificateInvalid"),
      ChainCase(GoodRoot, [GoodSigner EXCEPT !.validity = Expired], "ks",
                "SignerCertificateExpired"),
      ChainCase(GoodRoot, [GoodSigner EXCEPT !.key_usage = "none"], "ks",
                "SignerCertificateInvalid"),
      ChainCase(GoodRoot, [GoodSigner EXCEPT !.signature = Sig("ka", "other tbs")], "ks",
                "CwtSignatureVerification"),
      ChainCase(GoodRoot, [GoodSigner EXCEPT !.signature = Sig("kb", "tbs")], "ks",
                "CwtSignatureVerification"),
      ChainCase(GoodRoot, GoodSigner, "kx", "CwtSignatureVerification") }

\* The last call was verify() on the given case.
VerifiedCase(case) ==
    /\ cwtCall # None
    /\ cwtCall.v.op = "verify"
    /\ cwtCall.v.cwt = case.cwt
    /\ cwtCall.v.roots = case.roots

\* C16 as stated: the valid chain verifies, and with exactly one of validity
\* window, key usage, signer TBS bytes or a signature changed, verification
\* fails with the error kind specific to the fault.
C16_SpecificErrorKind ==
    /\ VerifiedCase(ChainCase(GoodRoot, GoodSigner, "ks", "Ok"))
          => cwtCall.v.res.kind = "Ok"
    /\ \A case \in SingleFaults :
          VerifiedCase(case) => cwtCall.v.res.kind = case.kind

\* C16 as the code has it: the valid chain verifies; with one fault
\* verification fails with CwtError::Trust, whose message is the error trail
\* holding the display text of the error specific to the fault (a changed TBS
\* and a wrong signature share the text of CwtSignatureVerification).
C16_FaultInTrustTrail ==
    /\ VerifiedCase(ChainCase(GoodRoot, GoodSigner, "ks", "Ok"))
          => cwtCall.v.res = Ok(None)
    /\ \A case \in SingleFaults :
          VerifiedCase(case)
             => cwtCall.v.res = Trust(<<"\n", Separator, ErrorText(CwtErr(case.kind))>>)
    /\ \A e1, e2 \in {f.kind : f \in SingleFaults} :
          e1 # e2 => ErrorText(CwtErr(e1)) # ErrorText(CwtErr(e2))

\* C16's case: the signer certificate of the otherwise valid chain has expired
\* and verify() has returned the Trust error naming that fault.
C16_Witness ==
    /\ VerifiedCase(ChainCase(GoodRoot, [GoodSigner EXCEPT !.validity = Expired], "ks",
                              "SignerCertificateExpired"))
    /\ cwtCall.v.res.kind = "Trust"
    /\ cwtCall.v.res.msg[3] = "Signer certificate expired"

\* The last call parsed, or verified, a Cwt whose exp is before now.
ExpInPast(claims) ==
    claims.exp # None /\ claims.exp # Malformed /\ claims.exp.v < CwtNow

\* What verify() does about the temporal claims: exp in the past is rejected
\* with CwtExpired before any trust evaluation, a Cwt without exp passes the
\* claim check, and nbf and iat are reported by claims() without any effect
\* on the result.
VerifyChecksExpOnly ==
    (cwtCall # None /\ cwtCall.v.op = "verify") =>
       LET c == cwtCall.v
       IN  /\ ExpInPast(c.cwt.claims)
                => (c.res.kind = "CwtExpired" /\ c.path = "claims")
           /\ c.cwt.claims.exp = None => c.path # "claims"
           /\ c.res = Validate([c.cwt EXCEPT !.claims.nbf = None, !.claims.iat = None],
                               c.roots).res
           /\ c.cwt.claims.nbf # None
                => ("Not Before" \in DOMAIN c.claims
                    /\ c.claims["Not Before"] = c.cwt.claims.nbf)
           /\ c.cwt.claims.iat # None
                => ("Issued" \in DOMAIN c.claims
                    /\ c.claims["Issued"] = c.cwt.claims.iat)

\* C17 as stated: a Cwt whose exp is in the past is rejected with CwtExpired
\* when it is parsed, and in verify() before any trust evaluation; one without
\* exp passes; nbf and iat never cause rejection.
C17_ExpValidatedEagerly ==
    /\ (cwtCall # None /\ cwtCall.v.op = "from_base10"
        /\ cwtCall.v.payload.decode = "decodes"
        /\ ExpInPast(cwtCall.v.payload.cwt.claims))
          => cwtCall.v.res.kind = "CwtExpired"
    /\ VerifyChecksExpOnly

\* C17 as the code has it: parsing does not look at exp, so a payload that
\* decodes gives the Cwt whatever its exp; verify() rejects exp in the past
\* with CwtExpired before any trust evaluation; a Cwt without exp passes the
\* claim check; nbf and iat are only reported.
C17_ExpValidatedInVerify ==
    /\ (cwtCall # None /\ cwtCall.v.op = "from_base10"
        /\ cwtCall.v.payload.decode = "decodes")
          => cwtCall.v.res = Ok(Some(cwtCall.v.payload.cwt))
    /\ VerifyChecksExpOnly

\* C17's case: a payload that decodes to a Cwt whose exp is in the past was
\* parsed, and the Cwt was returned.
C17_Witness ==
    /\ cwtCall # None
    /\ cwtCall.v.op = "from_base10"
    /\ cwtCall.v.payload.decode = "decodes"
    /\ ExpInPast(cwtCall.v.payload.cwt.claims)
    /\ cwtCall.v.res = Ok(Some(cwtCall.v.payload.cwt))

----------------------------------------------------------------------------
(* The DC API request handler (oid4vp/dc_api/mod.rs:67-253,
   oid4vp/dc_api/build_response.rs:25-58) *)

\* DcApiError
InvalidRequest(msg) == [kind |-> "InvalidRequest", val |-> None, msg |-> msg]
InternalError(msg) == [kind |-> "InternalError", val |-> None, msg |-> msg]
\* anyhow::Error carried by the helpers
Bail(msg) == [kind |-> "Err", val |-> None, msg |-> msg]

\* The browser origin the caller supplies.
Origin == "https://verifier.example"
OtherOrigin == "https://attacker.example"

\* The request JWT, when there is one: whether it decodes as a JWS, its header
\* algorithm, and whether its signature verifies against the certificate it
\* carries.
Jwt(decodes, alg, verifies) == [decodes |-> decodes, alg |-> alg, verifies |-> verifies]
RequestJwts ==
    { None, Some(Jwt(FALSE, "none", FALSE)), Some(Jwt(TRUE, "none", FALSE)),
      Some(Jwt(TRUE, "ES256", TRUE)), Some(Jwt(TRUE, "ES256", FALSE)) }

\* Client identifier schemes: unsigned, the two handled here, and one other.
ClientIdSchemes == {"none", "x509_san_dns", "x509_san_uri", "did"}
ClientIds == {None, Some("verifier.example")}

\* expected_origins: absent, or a list of origins.
ExpectedOriginsValues == {None, Some({Origin}), Some({OtherOrigin})}

\* response_mode and the client metadata that goes with dc_api.jwt.
ResponseModes == {"dc_api", "dc_api.jwt", "direct_post"}
Metadata(alg, enc, jwk) == [alg |-> alg, enc |-> enc, jwk |-> jwk]
ClientMetadatas ==
    { None, Some(Metadata("ECDH-ES", "A128GCM", TRUE)),
      Some(Metadata("ECDH-ES", "A128GCM", FALSE)),
      Some(Metadata("RSA-OAEP", "A128GCM", TRUE)),
      Some(Metadata("ECDH-ES", "A256GCM", TRUE)),
      Some(Metadata("RSA-OAEP", "A256GCM", TRUE)) }

\* The state parameter: absent, a string, or a value that is no string.
StateValues == {None, Some("state-1"), Malformed}

\* The DCQL query of the request: absent, or its credential queries by id.
CredentialQuery(id, doctype_value) ==
    [id |-> id,
     query |-> [claims |-> <<ClaimPath(MdlNamespace, GivenName),
                             ClaimPath(MdlNamespace, FamilyName)>>,
                doctype_value |-> doctype_value]]
DcqlQueries ==
    { None, Some({CredentialQuery("other", Some(MdlDocType))}),
      Some({CredentialQuery("mdl", Some(OtherDocType))}),
      Some({CredentialQuery("mdl", Some(MdlDocType))}) }

\* The authorization requests handed to handle_dc_api_request.
AuthorizationRequests ==
    [parses : {TRUE}, jwt : RequestJwts, scheme : ClientIdSchemes,
     client_id : ClientIds, expected_origins : ExpectedOriginsValues,
     response_mode : ResponseModes, client_metadata : ClientMetadatas,
     state : StateValues, nonce : {"nonce-1"}, dcql_query : DcqlQueries]
    \cup
    [parses : {FALSE}, jwt : {None}, scheme : {"none"}, client_id : {None},
     expected_origins : {None}, response_mode : {"dc_api"}, client_metadata : {None},
     state : {None}, nonce : {"nonce-1"}, dcql_query : {None}]

\* check_expected_origins that accepts any list of origins.
CheckExpectedOriginsAnyOrigin(origin, request) ==
    IF request.expected_origins = None THEN Bail("expected_origins") ELSE Ok(None)

\* check_expected_origins (lines 68-75)
CheckExpectedOrigins(origin, request) ==
    IF request.expected_origins = None THEN Bail("expected_origins")
    ELSE IF origin \notin request.expected_origins.v
    THEN Bail("expected origin not found in request")
    ELSE Ok(None)

\* x509_san::validate::<P256Verifier>: the request JWT's signature and the
\* client_id are checked against the certificate the JWT carries.
X509SanValidate(request, request_jwt) ==
    IF request_jwt.decodes /\ request_jwt.alg = "ES256" /\ request_jwt.verifies
       /\ request.client_id # None
    THEN Ok(None)
    ELSE Bail("x509_san validation failed")

\* x509_san_dns / x509_san_uri (lines 107-141). steps records the checks made,
\* in order.
X509San(origin, request) ==
    IF request.jwt = None
    THEN [res |-> Bail("request JWT is required"), steps |-> <<"request_jwt">>]
    ELSE IF CheckExpectedOrigins(origin, request).kind # "Ok"
    THEN [res |-> CheckExpectedOrigins(origin, request),
          steps |-> <<"request_jwt", "check_expected_origins">>]
    ELSE [res |-> X509SanValidate(request, request.jwt.v),
          steps |-> <<"request_jwt", "check_expected_origins", "x509_san::validate">>]

\* AuthorizationRequest::validate with WalletActivity as the RequestVerifier
\* (lines 97-142): none accepts, the two x509_san schemes are checked, every
\* other scheme is left unimplemented.
ValidateRequest(origin, request) ==
    CASE request.jwt # None /\ ~request.jwt.v.decodes ->
             [res |-> Bail("failed to decode the request JWT"), steps |-> <<>>]
      [] request.scheme = "none" -> [res |-> Ok(None), steps |-> <<>>]
      [] request.scheme \in {"x509_san_dns", "x509_san_uri"} -> X509San(origin, request)
      [] OTHER -> [res |-> Bail("client verification not implemented"), steps |-> <<>>]

\* get_state_from_request
GetStateFromRequest(request) ==
    IF request.state = Malformed THEN Bail("state") ELSE Ok(request.state)

\* Responder::new without the checks of alg and enc.
ResponderNewAnyAlg(request) ==
    IF request.state = Malformed THEN Bail("state")
    ELSE IF request.response_mode = "dc_api"
    THEN Ok(Some([tag |-> "Json", state |-> request.state]))
    ELSE IF request.response_mode = "dc_api.jwt"
    THEN IF request.client_metadata = None THEN Bail("client_metadata")
         ELSE IF ~request.client_metadata.v.jwk THEN Bail("no jwk in client metadata")
         ELSE Ok(Some([tag |-> "Jwe", alg |-> request.client_metadata.v.alg,
                       enc |-> request.client_metadata.v.enc,
                       state |-> request.state]))
    ELSE Bail("unsupported response mode")

\* Responder::new (build_response.rs:26-58)
ResponderNew(request) ==
    IF GetStateFromRequest(request).kind # "Ok" THEN GetStateFromRequest(request)
    ELSE IF request.response_mode = "dc_api"
    THEN Ok(Some([tag |-> "Json", state |-> request.state]))
    ELSE IF request.response_mode = "dc_api.jwt"
    THEN IF request.client_metadata = None THEN Bail("client_metadata")
         ELSE IF ~request.client_metadata.v.jwk THEN Bail("no jwk in client metadata")
         ELSE IF request.client_metadata.v.alg # "ECDH-ES"
         THEN Bail("unsupported encryption alg")
         ELSE IF request.client_metadata.v.enc # "A128GCM"
         THEN Bail("unsupported encryption scheme")
         ELSE Ok(Some([tag |-> "Jwe", alg |-> request.client_metadata.v.alg,
                       enc |-> request.client_metadata.v.enc,
                       state |-> request.state]))
    ELSE Bail("unsupported response mode")

\* The credential the caller selected, and its DCQL credential id.
DcqlCredentialId == "mdl"
SelectedMdoc ==
    Credential("mdl-1-age",
        <<Item(MdlNamespace, AgeOver("21")), Item(MdlNamespace, GivenName)>>)

\* query.credentials().iter().find(|c| c.id() == dcql_credential_id)
FindCredentialQuery(query, id) ==
    IF \E c \in query : c.id = id
    THEN Some((CHOOSE c \in query : c.id = id).query)
    ELSE None

\* handle_dc_api_request (lines 148-202): the result, with the
\* InProgressRequestDcApi as the value of Ok.
HandleResult(origin, request) ==
    IF ~request.parses THEN InvalidRequest("failed to parse the request")
    ELSE IF ValidateRequest(origin, request).res.kind # "Ok"
    THEN InvalidRequest("the request is could not be verified")
    ELSE IF ResponderNew(request).kind # "Ok"
    THEN InvalidRequest("could not build a responder for the request")
    ELSE IF request.dcql_query = None THEN InvalidRequest("dcql_query")
    ELSE IF FindCredentialQuery(request.dcql_query.v, DcqlCredentialId) = None
    THEN InvalidRequest("requested credential not found")
    ELSE LET request_match ==
                 FindMatchResult(FindCredentialQuery(request.dcql_query.v,
                                                     DcqlCredentialId).v,
                                 SelectedMdoc, "asc")
         IN  IF request_match.kind # "Ok"
             THEN InvalidRequest("the selected credential does not match the request")
             ELSE Ok(Some([dcql_credential_id |-> DcqlCredentialId,
                           origin |-> origin,
                           responder |-> ResponderNew(request).val.v,
                           request |-> request,
                           request_match |-> request_match.val.v]))

\* The checks of the request's verification that ran before the handler
\* returned.
HandleSteps(origin, request) ==
    IF ~request.parses THEN <<>> ELSE ValidateRequest(origin, request).steps

\* format!("web-origin:{}", self.origin)
WebOrigin(origin) == "web-origin:" \o origin

\* effective_client_id that takes every request JWT for a signature.
EffectiveClientIdAnyJwtSigned(origin, request) ==
    IF request.jwt = None THEN Ok(Some(WebOrigin(origin)))
    ELSE IF ~request.jwt.v.decodes THEN Bail("failed to decode JWS")
    ELSE IF request.client_id = None THEN Bail("signed request missing client_id")
    ELSE Ok(request.client_id)

\* effective_client_id (lines 77-94)
EffectiveClientId(origin, request) ==
    IF request.jwt = None THEN Ok(Some(WebOrigin(origin)))
    ELSE IF ~request.jwt.v.decodes THEN Bail("failed to decode JWS")
    ELSE IF request.jwt.v.alg = "none" THEN Ok(Some(WebOrigin(origin)))
    ELSE IF request.client_id = None THEN Bail("signed request missing client_id")
    ELSE Ok(request.client_id)

\* HandoverInfo(String, String, String) (prepare_response.rs:14-15)
HandoverInfo(origin, client_id, nonce) == <<origin, client_id, nonce>>

\* cbor::to_vec of a tuple struct: a CBOR array of its fields, in order, each a
\* text string.
CborToVec(fields) ==
    [major |-> "array", items |-> [i \in DOMAIN fields |-> [major |-> "text", v |-> fields[i]]]]

\* Sha256::digest: 32 bytes that stand for the bytes hashed and for nothing
\* else.
Sha256Digest(bytes) == [len |-> 32, of |-> bytes]

\* Handover::new with the nonce left out of the HandoverInfo.
HandoverNewWithoutNonce(origin, client_id, nonce) ==
    <<"OpenID4VPDCAPIHandover",
      Sha256Digest(CborToVec(HandoverInfo(origin, client_id, "")))>>

\* Handover::new (prepare_response.rs:17-27)
HandoverNew(origin, client_id, nonce) ==
    <<"OpenID4VPDCAPIHandover",
      Sha256Digest(CborToVec(HandoverInfo(origin, client_id, nonce)))>>

\* Responder::response (build_response.rs:60-94)
ResponderResponse(responder, vp_token) ==
    [format |-> IF responder.tag = "Json" THEN "json" ELSE "jwe",
     vp_token |-> vp_token, state |-> responder.state]

\* The key stores respond() is given: one that fails to sign, and two keys.
KeyStores == {None, Some("key-1"), Some("key-2")}

\* The approved fields respond() is given: none of the requested fields, or
\* all of them.
ApprovedFields(in_progress) ==
    {<<>>, [i \in DOMAIN in_progress.request_match.requested_fields |->
               in_progress.request_match.requested_fields[i].id]}

\* prepare_response: the device response over the approved fields, signed by
\* the key store over the handover.
DeviceResponse(keystore, mdoc, approved_fields, handover) ==
    [doc_type |-> mdoc.doc_type, approved_fields |-> approved_fields,
     signed_by |-> keystore.v, handover |-> handover]

\* InProgressRequestDcApi::respond (lines 217-253)
RespondResult(in_progress, keystore, approved_fields) ==
    LET client_id == EffectiveClientId(in_progress.origin, in_progress.request)
    IN  IF client_id.kind # "Ok"
        THEN InvalidRequest("failed to determine the effective client id")
        ELSE IF keystore = None
        THEN InternalError("failed to prepare the device response")
        ELSE Ok(Some(ResponderResponse(in_progress.responder,
                        [credential_id |-> in_progress.dcql_credential_id,
                         device_response |->
                             DeviceResponse(keystore, SelectedMdoc, approved_fields,
                                 HandoverNew(in_progress.origin, client_id.val.v,
                                             in_progress.request.nonce))])))

HandleDcApiRequest(origin, request) ==
    /\ dcCall' = Some([origin |-> origin, request |-> request,
                       steps |-> HandleSteps(origin, request),
                       handled |-> HandleResult(origin, request),
                       responded |-> None])
    /\ UNCHANGED <<mdlVars, walletVars, utilVars, httpCall, matchCall, cwtCall>>

Respond(keystore, approved_fields) ==
    /\ dcCall # None
    /\ dcCall.v.handled.kind = "Ok"
    /\ dcCall' = Some([dcCall.v EXCEPT !.responded =
                          Some(RespondResult(dcCall.v.handled.val.v, keystore,
                                             approved_fields))])
    /\ UNCHANGED <<mdlVars, walletVars, utilVars, httpCall, matchCall, cwtCall>>

\* The caller is done with the request.
DropRequest ==
    /\ dcCall # None
    /\ dcCall' = None
    /\ UNCHANGED <<mdlVars, walletVars, utilVars, httpCall, matchCall, cwtCall>>

\* One request is handled at a time.
NextDcApi ==
    \/ /\ dcCall = None
       /\ \E request \in AuthorizationRequests : HandleDcApiRequest(Origin, request)
    \/ /\ dcCall # None
       /\ dcCall.v.handled.kind = "Ok"
       /\ \E keystore \in KeyStores,
             approved_fields \in ApprovedFields(dcCall.v.handled.val.v) :
               Respond(keystore, approved_fields)
    \/ DropRequest

SpecDcApi == Init /\ [][NextDcApi]_vars

----------------------------------------------------------------------------
(* Claims about the DC API request handler *)

\* The last handle_dc_api_request got as far as Responder::new: the request
\* parsed and was verified.
ReachedResponder ==
    /\ dcCall # None
    /\ dcCall.v.request.parses
    /\ ValidateRequest(dcCall.v.origin, dcCall.v.request).res.kind = "Ok"

\* The handler rejected the request because no responder could be built.
ResponderRejected ==
    /\ dcCall.v.handled = InvalidRequest("could not build a responder for the request")
    /\ dcCall.v.responded = None

\* The responder of the in-progress request, when the handler returned one.
ResponderIs(tag) ==
    dcCall.v.handled.kind = "Ok" => dcCall.v.handled.val.v.responder.tag = tag

AdvertisesEcdhEsA128Gcm(request) ==
    /\ request.client_metadata # None
    /\ request.client_metadata.v.alg = "ECDH-ES"
    /\ request.client_metadata.v.enc = "A128GCM"

\* C18 as stated: Responder::new picks the encoder from response_mode alone:
\* dc_api always gives the plain-JSON responder, dc_api.jwt gives the JWE
\* responder exactly under ECDH-ES + A128GCM, every other mode is rejected,
\* and each rejection reaches the caller as InvalidRequest with no
\* in-progress request.
C18_ResponderFromModeAlone ==
    ReachedResponder =>
        LET request == dcCall.v.request
        IN  /\ request.response_mode = "dc_api" =>
                ~ResponderRejected /\ ResponderIs("Json")
            /\ request.response_mode = "dc_api.jwt" =>
                /\ ResponderIs("Jwe")
                /\ ~AdvertisesEcdhEsA128Gcm(request) => ResponderRejected
            /\ request.response_mode \notin {"dc_api", "dc_api.jwt"} =>
                ResponderRejected

\* C18 as the code has it: the request's state parameter is read first, and a
\* state that cannot be read rejects the request under every response mode.
\* With a readable state, dc_api gives the plain-JSON responder; dc_api.jwt
\* gives the JWE responder only when the client metadata advertises ECDH-ES
\* and A128GCM (and carries a key), and is rejected for any other alg or enc;
\* every other response mode is rejected. Each rejection reaches the caller as
\* InvalidRequest, with no in-progress request to respond to.
C18_ResponderFromModeAndState ==
    ReachedResponder =>
        LET request == dcCall.v.request
        IN  /\ request.state = Malformed => ResponderRejected
            /\ request.response_mode = "dc_api" /\ request.state # Malformed =>
                ~ResponderRejected /\ ResponderIs("Json")
            /\ request.response_mode = "dc_api.jwt" =>
                /\ ResponderIs("Jwe")
                /\ ~AdvertisesEcdhEsA128Gcm(request) => ResponderRejected
                /\ /\ AdvertisesEcdhEsA128Gcm(request)
                   /\ request.client_metadata.v.jwk
                   /\ request.state # Malformed
                   => ~ResponderRejected
            /\ request.response_mode \notin {"dc_api", "dc_api.jwt"} =>
                ResponderRejected
            /\ dcCall.v.handled.kind # "Ok" =>
                /\ dcCall.v.handled.kind = "InvalidRequest"
                /\ dcCall.v.handled.val = None
                /\ dcCall.v.responded = None

\* A verified dc_api.jwt request with a readable state whose metadata
\* advertises another alg was rejected.
C18_Witness ==
    /\ ReachedResponder
    /\ dcCall.v.request.response_mode = "dc_api.jwt"
    /\ dcCall.v.request.state # Malformed
    /\ dcCall.v.request.client_metadata = Some(Metadata("RSA-OAEP", "A128GCM", TRUE))
    /\ ResponderRejected

\* The last handle_dc_api_request got as far as verifying the request under
\* its client identifier scheme: the request parsed and its JWT, if any,
\* decoded.
ReachedVerification ==
    /\ dcCall # None
    /\ dcCall.v.request.parses
    /\ dcCall.v.request.jwt # None => dcCall.v.request.jwt.v.decodes

\* The handler rejected the request because it could not be verified.
VerificationRejected ==
    /\ dcCall.v.handled = InvalidRequest("the request is could not be verified")
    /\ dcCall.v.responded = None

\* The request names the caller's origin among its expected origins.
OriginExpected ==
    /\ dcCall.v.request.expected_origins # None
    /\ dcCall.v.origin \in dcCall.v.request.expected_origins.v

\* step a ran, and step b did not run before it.
StepBefore(steps, a, b) ==
    \E i \in DOMAIN steps :
        /\ steps[i] = a
        /\ \A j \in 1..i : steps[j] # b

\* C19: a request under x509_san_dns or x509_san_uri is accepted only with a
\* request JWT and with the caller's origin among its expected_origins; a
\* missing expected_origins or an origin that is not listed fails the handler
\* with InvalidRequest, and that check runs before the JWT's signature is
\* validated (which then does not run at all). Requests under another signed
\* scheme are rejected.
C19_ExpectedOriginsChecked ==
    ReachedVerification =>
        LET request == dcCall.v.request
        IN  /\ request.scheme \in {"x509_san_dns", "x509_san_uri"} =>
                /\ dcCall.v.handled.kind = "Ok" =>
                       request.jwt # None /\ OriginExpected
                /\ request.jwt = None => VerificationRejected
                /\ ~OriginExpected =>
                       /\ VerificationRejected
                       /\ \A i \in DOMAIN dcCall.v.steps :
                              dcCall.v.steps[i] # "x509_san::validate"
                /\ (\E i \in DOMAIN dcCall.v.steps :
                        dcCall.v.steps[i] = "x509_san::validate") =>
                       StepBefore(dcCall.v.steps, "check_expected_origins",
                                  "x509_san::validate")
            /\ request.scheme \notin {"none", "x509_san_dns", "x509_san_uri"} =>
                VerificationRejected

\* A request under x509_san_dns with a well-signed JWT, listing only another
\* origin, was rejected after the origin check and without a signature check.
C19_Witness ==
    /\ ReachedVerification
    /\ dcCall.v.request.scheme = "x509_san_dns"
    /\ dcCall.v.request.jwt = Some(Jwt(TRUE, "ES256", TRUE))
    /\ dcCall.v.request.client_id # None
    /\ dcCall.v.request.expected_origins = Some({OtherOrigin})
    /\ dcCall.v.steps = <<"request_jwt", "check_expected_origins">>
    /\ VerificationRejected

\* respond() was called on the in-progress request.
Responded == dcCall # None /\ dcCall.v.responded # None

\* The request is unsigned: it has no request JWT, or one whose header
\* algorithm is none.
Unsigned(request) == request.jwt = None \/ request.jwt.v.alg = "none"

\* The client id bound into the handover of the response, when respond()
\* got as far as building the handover.
BoundClientId(client_id) ==
    /\ dcCall.v.responded.v.kind # "InvalidRequest"
    /\ dcCall.v.responded.v.kind = "Ok" =>
           dcCall.v.responded.v.val.v.vp_token.device_response.handover =
               HandoverNew(dcCall.v.origin, client_id, dcCall.v.request.nonce)

\* C20: the client id respond() binds into the handover is web-origin:<origin>
\* whenever the request is unsigned (no request JWT, or a JWT with header
\* algorithm none), and the request object's own client_id when the request is
\* signed; on a signed request without client_id respond() fails.
C20_EffectiveClientId ==
    Responded =>
        LET request == dcCall.v.request
        IN  /\ Unsigned(request) =>
                BoundClientId("web-origin:https://verifier.example")
            /\ ~Unsigned(request) /\ request.client_id # None =>
                BoundClientId(request.client_id.v)
            /\ ~Unsigned(request) /\ request.client_id = None =>
                dcCall.v.responded.v =
                    InvalidRequest("failed to determine the effective client id")

\* A request carrying its own client_id in a JWT with algorithm none was
\* answered with the web origin bound into the handover.
C20_Witness ==
    /\ Responded
    /\ dcCall.v.request.jwt = Some(Jwt(TRUE, "none", FALSE))
    /\ dcCall.v.request.client_id = Some("verifier.example")
    /\ dcCall.v.responded.v.kind = "Ok"
    /\ dcCall.v.responded.v.val.v.vp_token.device_response.handover =
           HandoverNew("https://verifier.example",
                       "web-origin:https://verifier.example", "nonce-1")

\* The handover of the response respond() gave, in the state rec.
HandoverOf(rec) == rec.v.responded.v.val.v.vp_token.device_response.handover

\* respond() gave a response, in the state rec.
RespondedOk(rec) ==
    /\ rec # None
    /\ rec.v.responded # None
    /\ rec.v.responded.v.kind = "Ok"

\* The handover of every response is the pair of the fixed tag and the 32-byte
\* hash of the CBOR array [origin, client_id, nonce] of text strings.
HandoverIsHashOfTriple ==
    RespondedOk(dcCall) =>
        LET handover == HandoverOf(dcCall)
            info == handover[2].of
        IN  /\ Len(handover) = 2
            /\ handover[1] = "OpenID4VPDCAPIHandover"
            /\ handover[2].len = 32
            /\ info.major = "array"
            /\ Len(info.items) = 3
            /\ \A i \in 1..3 : info.items[i].major = "text"
            /\ info.items[1].v = dcCall.v.origin
            /\ info.items[2].v =
                   EffectiveClientId(dcCall.v.origin, dcCall.v.request).val.v
            /\ info.items[3].v = dcCall.v.request.nonce

\* A respond() call that follows a respond() call on the same in-progress
\* request uses the same handover, whatever key store and approved fields the
\* two calls were given.
SameHandoverAgain ==
    RespondedOk(dcCall) /\ RespondedOk(dcCall') => HandoverOf(dcCall') = HandoverOf(dcCall)

----------------------------------------------------------------------------
(* Signature normalisation (crypto.rs:56-67) and its use by the presentation
   signer (presentation/mod.rs:139-175) *)

\* The messages a signer is asked to sign.
NumMessages == 8
Messages == 1..NumMessages

\* The byte strings handed to the normalisation: raw and DER signatures over a
\* message, and the bytes that are no signature of the expected length.
SignatureInputs ==
    {SignatureBytes(m, enc) : m \in Messages, enc \in {"raw", "der"}} \cup JunkBytes

\* Signature::to_vec emitting the DER form.
ToVecDer(signature) == [enc |-> "der", len |-> 70, over |-> signature.over]

\* Signature::to_vec: the fixed-width r||s form.
ToVec(signature) == [enc |-> "raw", len |-> RawLen, over |-> signature.over]

\* ensure_raw_fixed_width_signature_encoding (crypto.rs:57-67): the pattern
\* (Ok(s), _) | (_, Ok(s)) takes the raw parsing when both succeed.
EnsureRawFixedWidthSignatureEncoding(bytes) ==
    IF FromSlice(bytes) # None THEN Some(ToVec(FromSlice(bytes).v))
    ELSE IF FromDer(bytes) # None THEN Some(ToVec(FromDer(bytes).v))
    ELSE None

\* MessageSignatureError
UnsupportedAlgorithm(msg) == [kind |-> "UnsupportedAlgorithm", val |-> None, msg |-> msg]
SignatureFailed == [kind |-> "SignatureFailed", val |-> None, msg |-> "signer"]

SignerAlgorithms == {"ES256", "ES256K"}
SignerCryptosuites == {"EcdsaSecp256r1Signature2019", "ecdsa-rdfc-2019", "eddsa-rdfc-2022"}

\* MessageSigner::sign for JsonLdPresentationBuilder (presentation/mod.rs:139-175)
SignResult(compatible, algorithm, cryptosuite, signed) ==
    IF ~compatible THEN UnsupportedAlgorithm(algorithm)
    ELSE IF signed = None THEN SignatureFailed
    ELSE IF cryptosuite \notin {"EcdsaSecp256r1Signature2019", "ecdsa-rdfc-2019"}
    THEN UnsupportedAlgorithm(cryptosuite)
    ELSE IF algorithm # "ES256"
    THEN UnsupportedAlgorithm("Unsupported curve utils for algorithm")
    ELSE IF EnsureRawFixedWidthSignatureEncoding(signed.v) = None
    THEN UnsupportedAlgorithm("Unsupported signature encoding")
    ELSE Ok(EnsureRawFixedWidthSignatureEncoding(signed.v))

\* A call of the normalisation on its own.
Normalise(bytes) ==
    /\ sigCall' = Some([op |-> "normalise", bytes |-> bytes,
                        res |-> EnsureRawFixedWidthSignatureEncoding(bytes),
                        again |-> None])
    /\ UNCHANGED <<mdlVars, walletVars, callVars, cborCall, vcCall, permCall>>

\* The caller normalises the bytes it got back.
NormaliseAgain ==
    /\ sigCall # None
    /\ sigCall.v.op = "normalise"
    /\ sigCall.v.res # None
    /\ sigCall.v.again = None
    /\ sigCall' = Some([sigCall.v EXCEPT !.again =
                           Some(EnsureRawFixedWidthSignatureEncoding(sigCall.v.res.v))])
    /\ UNCHANGED <<mdlVars, walletVars, callVars, cborCall, vcCall, permCall>>

\* The presentation builder signs a message with its signer.
Sign(compatible, algorithm, cryptosuite, signed) ==
    /\ sigCall' = Some([op |-> "sign", bytes |-> signed,
                        res |-> SignResult(compatible, algorithm, cryptosuite, signed),
                        again |-> None])
    /\ UNCHANGED <<mdlVars, walletVars, callVars, cborCall, vcCall, permCall>>

\* The caller is done with the signature.
DropSignature ==
    /\ sigCall # None
    /\ sigCall' = None
    /\ UNCHANGED <<mdlVars, walletVars, callVars, cborCall, vcCall, permCall>>

NextCrypto ==
    \/ /\ sigCall = None
       /\ \E bytes \in SignatureInputs : Normalise(bytes)
    \/ NormaliseAgain
    \/ /\ sigCall = None
       /\ \E compatible \in BOOLEAN, algorithm \in SignerAlgorithms,
             cryptosuite \in SignerCryptosuites,
             signed \in {None} \cup {Some(b) : b \in SignatureInputs} :
               Sign(compatible, algorithm, cryptosuite, signed)
    \/ DropSignature

SpecCrypto == Init /\ [][NextCrypto]_vars

\* The last call was the normalisation of bytes.
Normalised == sigCall # None /\ sigCall.v.op = "normalise"

\* C22: the normalisation returns the raw fixed-width 64-byte form of the
\* first parsing that succeeds, the raw parsing before the DER parsing, and
\* null when neither succeeds; normalising its result again gives the same
\* bytes. The presentation signer returns these bytes, and fails when there
\* are none.
C22_NormaliseIdempotent ==
    /\ Normalised =>
        LET bytes == sigCall.v.bytes
            res == sigCall.v.res
        IN  /\ res # None => res.v.enc = "raw" /\ res.v.len = 64
            /\ FromSlice(bytes) # None =>
                   res # None /\ res.v.over = FromSlice(bytes).v.over
            /\ FromSlice(bytes) = None /\ FromDer(bytes) # None =>
                   res # None /\ res.v.over = FromDer(bytes).v.over
            /\ FromSlice(bytes) = None /\ FromDer(bytes) = None => res = None
            /\ sigCall.v.again # None => sigCall.v.again.v = res
    /\ sigCall # None /\ sigCall.v.op = "sign" /\ sigCall.v.res.kind = "Ok" =>
           /\ sigCall.v.res.val.v.enc = "raw"
           /\ sigCall.v.res.val.v.len = 64
           /\ sigCall.v.res.val.v.over = sigCall.v.bytes.v.over

\* A DER signature was normalised to the raw form, and normalising that again
\* gave the same bytes.
C22_Witness ==
    /\ Normalised
    /\ sigCall.v.bytes = SignatureBytes(1, "der")
    /\ sigCall.v.res = Some(SignatureBytes(1, "raw"))
    /\ sigCall.v.again = Some(sigCall.v.res)

----------------------------------------------------------------------------
(* CborInteger (common.rs:163-226). An i128 is held as its sign and the 16
   base-256 digits of its magnitude, most significant first; a CborInteger as
   its 16 bytes. *)

ByteLen == 16

\* The i128 with the given sign and magnitude.
I128(neg, mag) == [neg |-> neg, mag |-> mag]
ZeroBytes == [i \in 1..ByteLen |-> 0]

\* bytes + 1 modulo 2^128, from the least significant byte on.
RECURSIVE AddOne(_, _)
AddOne(bytes, i) ==
    IF i = 0 THEN bytes
    ELSE IF bytes[i] = 255 THEN AddOne([bytes EXCEPT ![i] = 0], i - 1)
    ELSE [bytes EXCEPT ![i] = bytes[i] + 1]

\* Two's-complement negation of a 16-byte pattern.
Negate(bytes) == AddOne([i \in DOMAIN bytes |-> 255 - bytes[i]], Len(bytes))

\* The bit pattern the machine holds for the i128 n.
BitPattern(n) == IF n.neg THEN Negate(n.mag) ELSE n.mag

\* (value >> k) as u8: the byte of the pattern that starts at bit k.
ShiftAsU8(n, k) == BitPattern(n)[ByteLen - (k \div 8)]

\* From<i128> for CborInteger (lines 199-222)
CborIntegerFrom(n) ==
    [bytes |-> <<ShiftAsU8(n, 120), ShiftAsU8(n, 112), ShiftAsU8(n, 104),
                 ShiftAsU8(n, 96), ShiftAsU8(n, 88), ShiftAsU8(n, 80),
                 ShiftAsU8(n, 72), ShiftAsU8(n, 64), ShiftAsU8(n, 56),
                 ShiftAsU8(n, 48), ShiftAsU8(n, 40), ShiftAsU8(n, 32),
                 ShiftAsU8(n, 24), ShiftAsU8(n, 16), ShiftAsU8(n, 8),
                 ShiftAsU8(n, 0)>>]

\* lower_bytes / upper_bytes (lines 170-184): the u64 folded from eight bytes,
\* held as its eight base-256 digits.
LowerBytes(integer) == SubSeq(integer.bytes, 9, 16)
UpperBytes(integer) == SubSeq(integer.bytes, 1, 8)

\* transmute::<u128, i128> / i128::from_be_bytes read as an unsigned number.
ToI128Unsigned(bytes) == I128(FALSE, bytes)

\* transmute::<u128, i128> / i128::from_be_bytes: the two's-complement reading
\* of 16 bytes.
ToI128(bytes) ==
    IF bytes[1] >= 128 THEN I128(TRUE, Negate(bytes)) ELSE I128(FALSE, bytes)

\* Long division of a magnitude by ten, from digit i on: quotient and remainder.
RECURSIVE DivTen(_, _, _, _)
DivTen(mag, i, rem, quot) ==
    IF i > Len(mag) THEN [quot |-> quot, rem |-> rem]
    ELSE DivTen(mag, i + 1, (rem * 256 + mag[i]) % 10,
                Append(quot, (rem * 256 + mag[i]) \div 10))

\* The decimal digits of a magnitude, most significant first.
RECURSIVE DecimalDigits(_)
DecimalDigits(mag) ==
    IF \A i \in DOMAIN mag : mag[i] = 0 THEN <<>>
    ELSE DecimalDigits(DivTen(mag, 1, 0, <<>>).quot) \o <<DivTen(mag, 1, 0, <<>>).rem>>

\* i128::to_string
Decimal(n) ==
    [minus |-> n.neg,
     digits |-> IF DecimalDigits(n.mag) = <<>> THEN <<0>> ELSE DecimalDigits(n.mag)]

\* to_text (lines 186-193)
ToText(integer) == Decimal(ToI128(UpperBytes(integer) \o LowerBytes(integer)))

\* From<CborInteger> for i128 (lines 224-228)
I128From(integer) ==
    IF Len(integer.bytes) = ByteLen THEN ToI128(integer.bytes) ELSE ToI128(ZeroBytes)

\* The i128 values converted: magnitudes whose bytes 1, 8, 9 and 16 run over
\* the edge values, within [i128::MIN, i128::MAX].
EdgeBytes == {0, 1, 127, 128, 255}
Magnitudes ==
    {[i \in 1..ByteLen |-> CASE i = 1 -> a [] i = 8 -> b [] i = 9 -> c
                             [] i = 16 -> d [] OTHER -> 0] :
        a \in EdgeBytes, b \in EdgeBytes, c \in EdgeBytes, d \in EdgeBytes}
MinMagnitude == [i \in 1..ByteLen |-> IF i = 1 THEN 128 ELSE 0]
I128Values ==
    {I128(FALSE, mag) : mag \in {m \in Magnitudes : m[1] < 128}}
    \cup {I128(TRUE, mag) : mag \in {m \in Magnitudes :
                                       /\ m # ZeroBytes
                                       /\ m[1] < 128 \/ m = MinMagnitude}}

\* CborInteger::from(n), and what its methods give.
ConvertInteger(n) ==
    /\ LET integer == CborIntegerFrom(n)
       IN  cborCall' = Some([op |-> "integer", n |-> n, integer |-> integer,
                             lower |-> LowerBytes(integer),
                             upper |-> UpperBytes(integer),
                             text |-> ToText(integer), back |-> I128From(integer)])
    /\ UNCHANGED <<mdlVars, walletVars, callVars, sigCall, vcCall, permCall>>

----------------------------------------------------------------------------
(* CborValue and its ordering (common.rs:230-322) *)

\* enum CborValue (lines 230-241). A float is NaN or a number; a text and a
\* byte string are sequences of code units; an ItemMap is held as the sequence
\* of (key, value) pairs its HashMap iterates.
CborNull == [kind |-> "Null"]
CborBool(b) == [kind |-> "Bool", bool |-> b]
CborInt(n) == [kind |-> "Integer", integer |-> CborIntegerFrom(n)]
CborFloat(x) == [kind |-> "Float", float |-> x]
CborBytes(b) == [kind |-> "Bytes", bytes |-> b]
CborText(t) == [kind |-> "Text", text |-> t]
CborArray(a) == [kind |-> "Array", items |-> a]
CborItemMap(entries) == [kind |-> "ItemMap", entries |-> entries]
CborTagged(id, value) == [kind |-> "Tag", id |-> id, value |-> value]
NaN == [nan |-> TRUE, x |-> 0]
Num(x) == [nan |-> FALSE, x |-> x]

\* Small i128 values: a magnitude of one byte.
SmallI128(neg, m) == I128(neg, [i \in 1..ByteLen |-> IF i = ByteLen THEN m ELSE 0])

\* Ordering, and what a call gives when it panics.
Less == "Less"
Equal == "Equal"
Greater == "Greater"
Panic == "panic"
Reverse(ord) ==
    CASE ord = Less -> Greater [] ord = Greater -> Less [] OTHER -> ord

\* Ord for integers
CmpInt(a, b) == IF a < b THEN Less ELSE IF a > b THEN Greater ELSE Equal

\* Ord for Vec<u8> and String: lexicographic, from position i on.
RECURSIVE CmpUnits(_, _, _)
CmpUnits(a, b, i) ==
    IF i > Len(a) /\ i > Len(b) THEN Equal
    ELSE IF i > Len(a) THEN Less
    ELSE IF i > Len(b) THEN Greater
    ELSE IF a[i] # b[i] THEN CmpInt(a[i], b[i])
    ELSE CmpUnits(a, b, i + 1)

\* Ord for i128
CmpI128(a, b) ==
    IF a.neg /\ ~b.neg THEN Less
    ELSE IF ~a.neg /\ b.neg THEN Greater
    ELSE IF a.neg THEN CmpUnits(b.mag, a.mag, 1)
    ELSE CmpUnits(a.mag, b.mag, 1)

\* f64::partial_cmp(..).unwrap_or(Ordering::Equal)
CmpFloat(a, b) == IF a.nan \/ b.nan THEN Equal ELSE CmpInt(a.x, b.x)

\* major_type with the two integer types exchanged.
MajorTypeSwapped(value) ==
    CASE value.kind \in {"Null", "Bool", "Float"} -> 7
      [] value.kind = "Integer" -> IF ~I128From(value.integer).neg THEN 1 ELSE 0
      [] value.kind = "Tag" -> 6
      [] value.kind = "Bytes" -> 2
      [] value.kind = "Text" -> 3
      [] value.kind = "Array" -> 4
      [] value.kind = "ItemMap" -> 5

\* major_type (lines 301-322)
MajorType(value) ==
    CASE value.kind \in {"Null", "Bool", "Float"} -> 7
      [] value.kind = "Integer" -> IF ~I128From(value.integer).neg THEN 0 ELSE 1
      [] value.kind = "Tag" -> 6
      [] value.kind = "Bytes" -> 2
      [] value.kind = "Text" -> 3
      [] value.kind = "Array" -> 4
      [] value.kind = "ItemMap" -> 5

\* Ord for CborValue (lines 277-299); the unreachable!() arm panics.
RECURSIVE Cmp(_, _)
RECURSIVE CmpValues(_, _, _)
RECURSIVE CmpEntries(_, _, _)
Cmp(x, y) ==
    IF MajorType(x) # MajorType(y) THEN CmpInt(MajorType(x), MajorType(y))
    ELSE IF x.kind # y.kind THEN Panic
    ELSE CASE x.kind = "Null" -> Equal
           [] x.kind = "Bool" -> CmpInt(IF x.bool THEN 1 ELSE 0, IF y.bool THEN 1 ELSE 0)
           [] x.kind = "Integer" -> CmpI128(I128From(x.integer), I128From(y.integer))
           [] x.kind = "Float" -> CmpFloat(x.float, y.float)
           [] x.kind = "Bytes" -> CmpUnits(x.bytes, y.bytes, 1)
           [] x.kind = "Text" -> CmpUnits(x.text, y.text, 1)
           [] x.kind = "Array" -> CmpValues(x.items, y.items, 1)
           [] x.kind = "ItemMap" ->
                  IF Len(x.entries) # Len(y.entries)
                  THEN CmpInt(Len(x.entries), Len(y.entries))
                  ELSE CmpEntries(x.entries, y.entries, 1)
           [] x.kind = "Tag" ->
                  IF x.id # y.id THEN CmpInt(x.id, y.id) ELSE Cmp(x.value, y.value)

\* Iterator::cmp over the elements of two arrays, from position i on.
CmpValues(a, b, i) ==
    IF i > Len(a) /\ i > Len(b) THEN Equal
    ELSE IF i > Len(a) THEN Less
    ELSE IF i > Len(b) THEN Greater
    ELSE IF Cmp(a[i], b[i]) # Equal THEN Cmp(a[i], b[i])
    ELSE CmpValues(a, b, i + 1)

\* Iterator::cmp over the (key, value) pairs two maps iterate.
CmpEntries(a, b, i) ==
    IF i > Len(a) /\ i > Len(b) THEN Equal
    ELSE IF i > Len(a) THEN Less
    ELSE IF i > Len(b) THEN Greater
    ELSE IF CmpUnits(a[i][1], b[i][1], 1) # Equal THEN CmpUnits(a[i][1], b[i][1], 1)
    ELSE IF Cmp(a[i][2], b[i][2]) # Equal THEN Cmp(a[i][2], b[i][2])
    ELSE CmpEntries(a, b, i + 1)

\* PartialEq for CborValue (lines 264-268)
Eq(x, y) == IF Cmp(x, y) = Panic THEN Panic ELSE Cmp(x, y) = Equal

\* The values compared: every variant, alone and inside an array, a map and a
\* tag.
CborAtoms ==
    {CborNull, CborBool(FALSE), CborBool(TRUE),
     CborInt(SmallI128(FALSE, 0)), CborInt(SmallI128(FALSE, 2)),
     CborInt(SmallI128(TRUE, 1)), CborInt(SmallI128(TRUE, 2)),
     CborFloat(Num(-1)), CborFloat(Num(1)), CborFloat(NaN),
     CborBytes(<<>>), CborBytes(<<1>>), CborBytes(<<1, 2>>),
     CborText(<<>>), CborText(<<97>>), CborText(<<98>>)}
CborValues ==
    CborAtoms
    \cup {CborArray(<<>>)} \cup {CborArray(<<a>>) : a \in CborAtoms}
    \cup {CborArray(<<CborNull, a>>) : a \in {CborNull, CborBool(TRUE)}}
    \cup {CborItemMap(<<>>)} \cup {CborItemMap(<<<<<<97>>, a>>>>) : a \in CborAtoms}
    \cup {CborItemMap(<<<<<<97>>, CborNull>>, <<<<98>>, CborNull>>>>),
          CborItemMap(<<<<<<98>>, CborNull>>, <<<<97>>, CborNull>>>>)}
    \cup {CborTagged(id, a) : id \in {0, 1}, a \in {CborNull, CborBool(TRUE), CborText(<<97>>)}}

\* x.cmp(&y), y.cmp(&x) and x == y.
Compare(x, y) ==
    /\ cborCall' = Some([op |-> "cmp", x |-> x, y |-> y, res |-> Cmp(x, y),
                         rev |-> Cmp(y, x), eq |-> Eq(x, y)])
    /\ UNCHANGED <<mdlVars, walletVars, callVars, sigCall, vcCall, permCall>>

----------------------------------------------------------------------------
(* CborKeyMapper (common.rs:325-412) *)

\* mod cbor_keys (lines 325-348)
ISSUER == 1
EXPIRES == 4
NOT_BEFORE == 5
ISSUED == 6
FULL_NAME == -70001
EMAIL == -70002
COMPANY == -70003
BIRTH_CERT_NUMBER == -70011
GIVEN_NAMES == -70012
FAMILY_NAME == -70013
BIRTH_DATE == -70014
SEX == -70015
BIRTH_LOCALITY == -70016
COUNTY_FIPS_CODE == -70017
MOTHER == -70018
FATHER == -70019
REGISTRATION_DATE == -70020

\* key_to_string (lines 355-382)
KeyToString(key) ==
    CASE key = ISSUER -> "Issuer"
      [] key = EXPIRES -> "Expires"
      [] key = NOT_BEFORE -> "Not Before"
      [] key = ISSUED -> "Issued"
      [] key = FULL_NAME -> "Full Name"
      [] key = EMAIL -> "Email"
      [] key = COMPANY -> "Company"
      [] key = BIRTH_CERT_NUMBER -> "birthCertificateNumber"
      [] key = GIVEN_NAMES -> "Given Names"
      [] key = FAMILY_NAME -> "Family Name"
      [] key = BIRTH_DATE -> "Birth Date"
      [] key = SEX -> "Sex"
      [] key = BIRTH_LOCALITY -> "Birth Locality"
      [] key = COUNTY_FIPS_CODE -> "County FIPS Code"
      [] key = MOTHER -> "Mother"
      [] key = FATHER -> "Father"
      [] key = REGISTRATION_DATE -> "Registration Date"
      [] OTHER -> ToString(key)

\* string_to_key (lines 385-411)
StringToKey(key_str) ==
    CASE key_str = "Expires" -> Some(EXPIRES)
      [] key_str = "Not Before" -> Some(NOT_BEFORE)
      [] key_str = "Issued" -> Some(ISSUED)
      [] key_str = "Full Name" -> Some(FULL_NAME)
      [] key_str = "Email" -> Some(EMAIL)
      [] key_str = "Company" -> Some(COMPANY)
      [] key_str = "Birth Certificate Number" -> Some(BIRTH_CERT_NUMBER)
      [] key_str = "Given Names" -> Some(GIVEN_NAMES)
      [] key_str = "Family Name" -> Some(FAMILY_NAME)
      [] key_str = "Birth Date" -> Some(BIRTH_DATE)
      [] key_str = "Sex" -> Some(SEX)
      [] key_str = "Birth Locality" -> Some(BIRTH_LOCALITY)
      [] key_str = "County FIPS Code" -> Some(COUNTY_FIPS_CODE)
      [] key_str = "Mother" -> Some(MOTHER)
      [] key_str = "Father" -> Some(FATHER)
      [] key_str = "Registration Date" -> Some(REGISTRATION_DATE)
      [] OTHER -> None

\* The keys of mod cbor_keys, and keys around them that it does not name.
EnumeratedKeys ==
    {ISSUER, EXPIRES, NOT_BEFORE, ISSUED, FULL_NAME, EMAIL, COMPANY,
     BIRTH_CERT_NUMBER, GIVEN_NAMES, FAMILY_NAME, BIRTH_DATE, SEX, BIRTH_LOCALITY,
     COUNTY_FIPS_CODE, MOTHER, FATHER, REGISTRATION_DATE}
OtherKeys == {0, 2, 3, 7, -1, -70000, -70004, -70010, -70021}

\* The labels key_to_string gives the enumerated keys, and other strings.
TableLabels == {KeyToString(key) : key \in EnumeratedKeys}
OtherLabels == {"Birth Certificate Number", "issuer", "Subject", "7", "-70021", ""}

\* key_to_string(key), and string_to_key of the label it gave.
MapKey(key) ==
    /\ cborCall' = Some([op |-> "key", key |-> key, label |-> KeyToString(key),
                         back |-> StringToKey(KeyToString(key))])
    /\ UNCHANGED <<mdlVars, walletVars, callVars, sigCall, vcCall, permCall>>

\* string_to_key(label), and key_to_string of the key it gave, if any.
MapLabel(label) ==
    /\ cborCall' = Some([op |-> "label", label |-> label, key |-> StringToKey(label),
                         back |-> IF StringToKey(label) = None THEN None
                                  ELSE Some(KeyToString(StringToKey(label).v))])
    /\ UNCHANGED <<mdlVars, walletVars, callVars, sigCall, vcCall, permCall>>

\* The caller is done with the value.
DropCbor ==
    /\ cborCall # None
    /\ cborCall' = None
    /\ UNCHANGED <<mdlVars, walletVars, callVars, sigCall, vcCall, permCall>>

NextCbor ==
    \/ /\ cborCall = None
       /\ \E n \in I128Values : ConvertInteger(n)
    \/ /\ cborCall = None
       /\ \E x \in CborValues, y \in CborValues : Compare(x, y)
    \/ /\ cborCall = None
       /\ \E key \in EnumeratedKeys \cup OtherKeys : MapKey(key)
    \/ /\ cborCall = None
       /\ \E label \in TableLabels \cup OtherLabels : MapLabel(label)
    \/ DropCbor

SpecCbor == Init /\ [][NextCbor]_vars

\* The last call was of the given kind.
CborCalled(op) == cborCall # None /\ cborCall.v.op = op

\* The major type the statement gives each variant.
StatedMajorType(value) ==
    CASE value.kind = "Integer" -> IF value.integer.bytes[1] < 128 THEN 0 ELSE 1
      [] value.kind = "Bytes" -> 2
      [] value.kind = "Text" -> 3
      [] value.kind = "Array" -> 4
      [] value.kind = "ItemMap" -> 5
      [] value.kind = "Tag" -> 6
      [] OTHER -> 7

\* C23: for values x and y of different major types, cmp(x, y) has the sign
\* of major_type(x) - major_type(y), the major types being 0 non-negative
\* integer, 1 negative integer, 2 bytes, 3 text, 4 array, 5 map, 6 tag and 7
\* Null, Bool and Float.
C23_MajorTypeFirst ==
    CborCalled("cmp") /\ StatedMajorType(cborCall.v.x) # StatedMajorType(cborCall.v.y) =>
        cborCall.v.res =
            IF StatedMajorType(cborCall.v.x) < StatedMajorType(cborCall.v.y)
            THEN Less ELSE Greater

\* A negative integer was compared with a non-negative one and came out
\* Greater.
C23_Witness ==
    /\ CborCalled("cmp")
    /\ cborCall.v.x = CborInt(SmallI128(TRUE, 2))
    /\ cborCall.v.y = CborInt(SmallI128(FALSE, 2))
    /\ cborCall.v.res = Greater

\* C24 as stated: cmp is a total order on CborValue: for every pair of values,
\* two values of the same major type and different variants included, it
\* returns an ordering without panicking, cmp(x, y) is the reverse of
\* cmp(y, x), and x == y holds exactly when cmp(x, y) is Equal.
C24_TotalOrder ==
    CborCalled("cmp") =>
        /\ cborCall.v.res \in {Less, Equal, Greater}
        /\ cborCall.v.rev = Reverse(cborCall.v.res)
        /\ cborCall.v.eq = (cborCall.v.res = Equal)

\* a + b modulo 2^128 is zero, adding from the least significant byte i on.
RECURSIVE SumIsZero(_, _, _, _)
SumIsZero(a, b, i, carry) ==
    IF i = 0 THEN TRUE
    ELSE /\ (a[i] + b[i] + carry) % 256 = 0
         /\ SumIsZero(a, b, i - 1, (a[i] + b[i] + carry) \div 256)

\* C25: for every i128 n, CborInteger::from(n) has a buffer of 16 bytes,
\* (upper_bytes << 64) | lower_bytes is the two's-complement bit pattern of n
\* (the magnitude itself for n >= 0, the pattern that added to the magnitude
\* gives 2^128 for n < 0), to_text() is the decimal rendering of n, and the
\* conversion back to i128 gives n.
C25_IntegerFidelity ==
    CborCalled("integer") =>
        LET n == cborCall.v.n
            pattern == cborCall.v.upper \o cborCall.v.lower
        IN  /\ Len(cborCall.v.integer.bytes) = 16
            /\ Len(pattern) = 16
            /\ \A i \in 1..16 : pattern[i] \in 0..255
            /\ IF n.neg THEN SumIsZero(pattern, n.mag, 16, 0) /\ pattern[1] >= 128
               ELSE pattern = n.mag
            /\ cborCall.v.text = Decimal(n)
            /\ cborCall.v.back = n

\* i128::MIN was converted: its pattern is 0x80 followed by zeros and its text
\* is -170141183460469231731687303715884105728.
C25_Witness ==
    /\ CborCalled("integer")
    /\ cborCall.v.n = I128(TRUE, MinMagnitude)
    /\ cborCall.v.integer.bytes = MinMagnitude
    /\ cborCall.v.text =
           [minus |-> TRUE,
            digits |-> <<1,7,0,1,4,1,1,8,3,4,6,0,4,6,9,2,3,1,7,3,1,6,8,7,3,0,3,
                         7,1,5,8,8,4,1,0,5,7,2,8>>]

\* The labels the statement names as the mapper's table.
StatedLabels ==
    {"Issuer", "Expires", "Not Before", "Issued", "Full Name", "Email", "Company",
     "birthCertificateNumber", "Given Names", "Family Name", "Birth Date", "Sex",
     "Birth Locality", "County FIPS Code", "Mother", "Father", "Registration Date"}

\* C26 as stated: the key mapper is a bijection on its enumerated set: for
\* every label L that key_to_string gives an enumerated key,
\* key_to_string(string_to_key(L)) = L; for every enumerated key k,
\* string_to_key(key_to_string(k)) = k; a key outside the table maps to its
\* decimal string and a label outside the table maps to no key.
C26_KeyMapperBijection ==
    /\ CborCalled("key") =>
           IF cborCall.v.key \in EnumeratedKeys
           THEN /\ cborCall.v.label \in StatedLabels
                /\ cborCall.v.back = Some(cborCall.v.key)
           ELSE cborCall.v.label = ToString(cborCall.v.key)
    /\ CborCalled("label") =>
           IF cborCall.v.label \in TableLabels
           THEN cborCall.v.back = Some(cborCall.v.label)
           ELSE cborCall.v.key = None

----------------------------------------------------------------------------
(* JsonVc::as_vp_token_item (credential/json_vc.rs:217-284) *)

MaxProofs == 2

\* Line 40
ACCEPTED_CRYPTOSUITES == {"ecdsa-rdfc-2019"}

\* The cryptosuite entry of a proof object: absent, a string, or a JSON value
\* that is no string.
NoCryptosuite == [json |-> "absent", s |-> ""]
JsonString(text) == [json |-> "string", s |-> text]
JsonNumber == [json |-> "number", s |-> ""]
CryptosuiteEntries ==
    {NoCryptosuite, JsonString("ecdsa-rdfc-2019"), JsonString("eddsa-rdfc-2022"),
     JsonNumber}

\* The elements of a proof array: proof objects, and a value that is no object.
ProofObject(cryptosuite) == [json |-> "object", cryptosuite |-> cryptosuite]
NotAnObject == [json |-> "string", cryptosuite |-> NoCryptosuite]
ProofObjects == {ProofObject(c) : c \in CryptosuiteEntries}

\* The "proof" entry of the credential's extra properties: absent, one proof
\* object, or an array.
NoProof == [json |-> "absent", items |-> <<>>]
SingleProof(object) == [json |-> "object", items |-> <<object>>]
ProofArray(items) == [json |-> "array", items |-> items]
ProofProperties ==
    {NoProof} \cup {SingleProof(o) : o \in ProofObjects}
    \cup {ProofArray(items) :
            items \in UNION {[1..n -> ProofObjects \cup {NotAnObject}] : n \in 0..MaxProofs}}

\* The parsed credential: its data-model version, whether a subject is an
\* empty object, and its proof.
JsonCredential(version, empty_subject, proof) ==
    [version |-> version, empty_subject |-> empty_subject, proof |-> proof]
JsonCredentials ==
    {JsonCredential("V1", FALSE, SingleProof(ProofObject(JsonString("eddsa-rdfc-2022")))),
     JsonCredential("V2", TRUE, NoProof)}
    \cup {JsonCredential("V2", FALSE, proof) : proof \in ProofProperties}

\* PresentationOptions: whether the signer supports the ldp_vp format, whether
\* its DID parses, and whether it signs.
PresentationOptions == [supports : BOOLEAN, did_parses : BOOLEAN, signs : BOOLEAN]

\* OID4VPError
VpError(kind) == [kind |-> kind, val |-> None]

\* A call in progress or returned.
VcCall(credential, options, at, i, kept, res) ==
    Some([credential |-> credential, options |-> options, pc |-> at, i |-> i,
          kept |-> kept, res |-> res])

\* Lines 270-272 (231-233 for v1): the holder id is parsed, and the unsigned
\* presentation holds the credential with the given proof.
BuildPresentation(credential, options, proof) ==
    IF ~options.did_parses
    THEN VcCall(credential, options, "returned", 0, <<>>, VpError("VpToken"))
    ELSE VcCall(credential, options, "sign", 0, <<>>,
                Ok(Some([version |-> credential.version, proof |-> proof])))

\* Lines 223-251: up to the filter over the proof array.
StartVpTokenItem(credential, options) ==
    /\ vcCall' =
         IF ~options.supports
         THEN VcCall(credential, options, "returned", 0, <<>>,
                     VpError("unsupported security method"))
         ELSE IF credential.version = "V1"
         THEN BuildPresentation(credential, options, credential.proof)
         ELSE IF credential.empty_subject
         THEN VcCall(credential, options, "returned", 0, <<>>,
                     VpError("EmptyCredentialSubject"))
         ELSE IF credential.proof.json = "array"
         THEN VcCall(credential, options, "filter", 1, <<>>, Ok(None))
         ELSE BuildPresentation(credential, options, credential.proof)
    /\ UNCHANGED <<mdlVars, walletVars, callVars, sigCall, cborCall, permCall>>

\* The call is at the given point.
VcAt(point) == vcCall # None /\ vcCall.v.pc = point

\* The element of the proof array the filter is at.
CurrentProof == vcCall.v.credential.proof.items[vcCall.v.i]

\* The filter goes on to the next element, keeping the current one or not.
FilterNext(keep) ==
    Some([vcCall.v EXCEPT !.pc = "filter", !.i = @ + 1,
                          !.kept = IF keep THEN Append(@, CurrentProof) ELSE @])

\* Lines 253-256: the next element of the array; flat_map drops what is no
\* object, and the closure evaluates obj.get("cryptosuite").next(): with no
\* entry the loop is not entered and the closure returns true (line 264).
FilterHead ==
    /\ VcAt("filter")
    /\ vcCall.v.i <= Len(vcCall.v.credential.proof.items)
    /\ vcCall' =
         IF CurrentProof.json # "object" THEN FilterNext(FALSE)
         ELSE IF CurrentProof.cryptosuite.json = "absent" THEN FilterNext(TRUE)
         ELSE Some([vcCall.v EXCEPT !.pc = "loop_body"])
    /\ UNCHANGED <<mdlVars, walletVars, callVars, sigCall, cborCall, permCall>>

\* Lines 257-262: the loop body; a string returns from the closure, anything
\* else ends the body.
LoopBody ==
    /\ VcAt("loop_body")
    /\ vcCall' =
         IF CurrentProof.cryptosuite.json = "string"
         THEN FilterNext(CurrentProof.cryptosuite.s \in ACCEPTED_CRYPTOSUITES)
         ELSE Some([vcCall.v EXCEPT !.pc = "loop_head"])
    /\ UNCHANGED <<mdlVars, walletVars, callVars, sigCall, cborCall, permCall>>

\* Line 256 again: the loop condition builds a new iterator over the entries
\* named "cryptosuite" and takes its first element, which is there.
LoopHead ==
    /\ VcAt("loop_head")
    /\ vcCall' = Some([vcCall.v EXCEPT !.pc = "loop_body"])
    /\ UNCHANGED <<mdlVars, walletVars, callVars, sigCall, cborCall, permCall>>

\* Lines 266-275: the array is replaced by the proofs kept.
FilterDone ==
    /\ VcAt("filter")
    /\ vcCall.v.i > Len(vcCall.v.credential.proof.items)
    /\ vcCall' = BuildPresentation(vcCall.v.credential, vcCall.v.options,
                                   ProofArray(vcCall.v.kept))
    /\ UNCHANGED <<mdlVars, walletVars, callVars, sigCall, cborCall, permCall>>

\* Lines 281-283
SignPresentation ==
    /\ VcAt("sign")
    /\ vcCall' = Some([vcCall.v EXCEPT
                          !.pc = "returned",
                          !.res = IF vcCall.v.options.signs THEN @
                                  ELSE VpError("signing failed")])
    /\ UNCHANGED <<mdlVars, walletVars, callVars, sigCall, cborCall, permCall>>

\* The caller is done with the result.
DropVpTokenItem ==
    /\ VcAt("returned")
    /\ vcCall' = None
    /\ UNCHANGED <<mdlVars, walletVars, callVars, sigCall, cborCall, permCall>>

NextVc ==
    \/ /\ vcCall = None
       /\ \E credential \in JsonCredentials, options \in PresentationOptions :
              StartVpTokenItem(credential, options)
    \/ FilterHead
    \/ LoopBody
    \/ LoopHead
    \/ FilterDone
    \/ SignPresentation
    \/ DropVpTokenItem

SpecVc == Init /\ [][NextVc]_vars

\* The call runs whenever it can: each of its steps is taken when it stays
\* enabled.
SpecVcFair == SpecVc /\ WF_vars(NextVc)

\* The proof is an object with a string cryptosuite outside the accepted set.
Unaccepted(proof) ==
    /\ proof.json = "object"
    /\ proof.cryptosuite.json = "string"
    /\ proof.cryptosuite.s \notin ACCEPTED_CRYPTOSUITES

\* The proof is an object with an accepted cryptosuite.
Accepted(proof) ==
    /\ proof.json = "object"
    /\ proof.cryptosuite.json = "string"
    /\ proof.cryptosuite.s \in ACCEPTED_CRYPTOSUITES

\* The number of elements of a sequence that satisfy Accepted.
AcceptedIn(items) == Cardinality({i \in DOMAIN items : Accepted(items[i])})

\* C27 as stated: in the presentation of a v2 credential that is handed to
\* the signer, no credential-embedded proof with a cryptosuite outside the
\* accepted set is left, whether the proof property is an array or a single
\* proof object, and the proofs with an accepted cryptosuite are all kept.
C27_UnacceptedProofsRemoved ==
    /\ vcCall # None
    /\ vcCall.v.pc \in {"sign", "returned"}
    /\ vcCall.v.res.kind = "Ok"
    /\ vcCall.v.credential.version = "V2"
    => LET out == vcCall.v.res.val.v.proof.items
       IN  /\ \A i \in DOMAIN out : ~Unaccepted(out[i])
           /\ AcceptedIn(out) = AcceptedIn(vcCall.v.credential.proof.items)

\* C30 as stated: as_vp_token_item always eventually returns a result or an
\* error, whatever the cryptosuite entries of the credential's proofs are.
C30_FilterTerminates == (vcCall # None) ~> VcAt("returned")

----------------------------------------------------------------------------
(* PermissionRequest::create_permission_response
   (oid4vp/permission_request.rs:230-297) *)

\* The longest selection a call is made with.
MaxSelected == 2

\* The credentials the holder can select: what is presented, and whether the
\* request requires limited disclosure for it.
SelectableCredentials == [inner : {"vc-1", "vc-2"}, limit_disclosure : BOOLEAN]

\* The selected-field lists the holder can give for one credential.
SelectedFieldChoices == {<<>>, <<"name">>, <<"name", "age">>}

SelectedCredentialLists ==
    UNION {[1..n -> SelectableCredentials] : n \in 0..MaxSelected}

SelectedFieldLists ==
    UNION {[1..n -> SelectedFieldChoices] : n \in 0..MaxSelected}

InvalidSelectedCredential(msg) ==
    [kind |-> "InvalidSelectedCredential", val |-> None, msg |-> msg]

LimitDisclosure == [kind |-> "LimitDisclosure", val |-> None, msg |-> ""]

\* as_vp_token failed for a credential.
PresentationFailed == [kind |-> "Presentation", val |-> None, msg |-> ""]

\* Lines 257-268: the credential with its selected fields attached.
WithSelectedFields(sc, sf) ==
    [inner |-> sc.inner, limit_disclosure |-> sc.limit_disclosure,
     selected_fields |-> Some(sf)]

\* A selection check without the limit-disclosure test.
CheckSelectionIgnoringLimit(selected_credentials, selected_fields) ==
    IF selected_credentials = <<>>
    THEN InvalidSelectedCredential("No selected credentials")
    ELSE IF Len(selected_fields) # Len(selected_credentials)
    THEN InvalidSelectedCredential(
             "Selected credentials length must match selected fields length")
    ELSE [kind |-> "Ok",
          val |-> Some([i \in DOMAIN selected_credentials |->
                           WithSelectedFields(selected_credentials[i],
                                              selected_fields[i])]),
          msg |-> ""]

\* Lines 238-271: the checks on the selection, and the credentials paired with
\* their selected fields.
CheckSelection(selected_credentials, selected_fields) ==
    IF selected_credentials = <<>>
    THEN InvalidSelectedCredential("No selected credentials")
    ELSE IF Len(selected_fields) # Len(selected_credentials)
    THEN InvalidSelectedCredential(
             "Selected credentials length must match selected fields length")
    ELSE IF \E i \in DOMAIN selected_credentials :
                selected_credentials[i].limit_disclosure
    THEN LimitDisclosure
    ELSE [kind |-> "Ok",
          val |-> Some([i \in DOMAIN selected_credentials |->
                           WithSelectedFields(selected_credentials[i],
                                              selected_fields[i])]),
          msg |-> ""]

\* The VP token item as_vp_token makes of a credential once the signer has
\* signed its presentation.
VpTokenItem(cred) ==
    [presents |-> cred.inner, selected_fields |-> cred.selected_fields,
     limit_disclosure |-> cred.limit_disclosure]

\* Lines 289-295
PermissionResponse(selected_credentials, token_items) ==
    [kind |-> "Ok",
     val |-> Some([selected_credentials |-> selected_credentials,
                   vp_token |-> token_items]),
     msg |-> ""]

PermAt(point) == permCall # None /\ permCall.v.pc = point

\* The credentials whose as_vp_token has not completed.
PendingItems ==
    {i \in DOMAIN permCall.v.checked : permCall.v.token_items[i] = None}

\* Lines 230-271: the call and its checks on the selection.
CreatePermissionResponse(selected_credentials, selected_fields) ==
    /\ permCall = None
    /\ LET r == CheckSelection(selected_credentials, selected_fields)
       IN  permCall' =
             Some([selected_credentials |-> selected_credentials,
                   selected_fields |-> selected_fields,
                   checked |-> IF r.kind = "Ok" THEN r.val.v ELSE <<>>,
                   token_items |-> IF r.kind = "Ok"
                                   THEN [i \in DOMAIN r.val.v |-> None]
                                   ELSE <<>>,
                   signer_calls |-> {},
                   pc |-> IF r.kind = "Ok" THEN "join" ELSE "returned",
                   res |-> r])
    /\ UNCHANGED <<mdlVars, walletVars, callVars, sigCall, cborCall, vcCall>>

\* Lines 281-286: one of the joined as_vp_token futures completes; it has invoked
\* the signer, and an error of it ends the call.
AsVpToken(i, signs) ==
    /\ PermAt("join")
    /\ i \in PendingItems
    /\ permCall' =
         Some([permCall.v EXCEPT
                 !.signer_calls = @ \cup {i},
                 !.token_items[i] = IF signs THEN Some(VpTokenItem(permCall.v.checked[i]))
                                    ELSE @,
                 !.pc = IF signs THEN @ ELSE "returned",
                 !.res = IF signs THEN @ ELSE PresentationFailed])
    /\ UNCHANGED <<mdlVars, walletVars, callVars, sigCall, cborCall, vcCall>>

\* Lines 286-295: all items are there, in the order of the credentials.
ReturnPermissionResponse ==
    /\ PermAt("join")
    /\ PendingItems = {}
    /\ permCall' =
         Some([permCall.v EXCEPT
                 !.pc = "returned",
                 !.res = PermissionResponse(
                             permCall.v.checked,
                             [i \in DOMAIN permCall.v.token_items |->
                                 permCall.v.token_items[i].v])])
    /\ UNCHANGED <<mdlVars, walletVars, callVars, sigCall, cborCall, vcCall>>

\* The caller is done with the result.
DropPermissionResponse ==
    /\ PermAt("returned")
    /\ permCall' = None
    /\ UNCHANGED <<mdlVars, walletVars, callVars, sigCall, cborCall, vcCall>>

NextPermission ==
    \/ /\ permCall = None
       /\ \E selected_credentials \in SelectedCredentialLists,
             selected_fields \in SelectedFieldLists :
              CreatePermissionResponse(selected_credentials, selected_fields)
    \/ \E i \in 1..MaxSelected, signs \in BOOLEAN : AsVpToken(i, signs)
    \/ ReturnPermissionResponse
    \/ DropPermissionResponse

SpecPermission == Init /\ [][NextPermission]_vars

----------------------------------------------------------------------------
(* Claims about create_permission_response (checked under SpecPermission) *)

\* The selection of the call is one the checks turn down.
SelectionRejected(call) ==
    \/ call.selected_credentials = <<>>
    \/ Len(call.selected_fields) # Len(call.selected_credentials)
    \/ \E i \in DOMAIN call.selected_credentials :
           call.selected_credentials[i].limit_disclosure

\* The error the claim names for a turned-down selection, the checks taken in
\* the order the claim lists them.
StatedRejection(call) ==
    IF \/ call.selected_credentials = <<>>
       \/ Len(call.selected_fields) # Len(call.selected_credentials)
    THEN "InvalidSelectedCredential"
    ELSE "LimitDisclosure"

\* The response holds one item per selected credential, in the order given,
\* each with the selected-field list given for that credential.
OneItemPerCredential(call) ==
    LET response == call.res.val.v
    IN  /\ Len(response.vp_token) = Len(call.selected_credentials)
        /\ Len(response.selected_credentials) = Len(call.selected_credentials)
        /\ \A i \in DOMAIN call.selected_credentials :
              /\ response.vp_token[i].presents = call.selected_credentials[i].inner
              /\ response.vp_token[i].selected_fields = Some(call.selected_fields[i])
              /\ response.selected_credentials[i].inner =
                     call.selected_credentials[i].inner
              /\ response.selected_credentials[i].selected_fields =
                     Some(call.selected_fields[i])

\* C29: create_permission_response turns down, with the signer invoked for no
\* credential, a call with no selected credentials or with a selected_fields
\* list of another length (InvalidSelectedCredential) and a call with a
\* credential that has limit_disclosure set (LimitDisclosure); the signer is
\* only ever invoked, and a response only ever produced, when none of these
\* holds, and the response then has one vp_token item per selected credential,
\* in the order given, each with its own selected-field list.
C29_RejectsBeforeSigning ==
    permCall # None =>
        LET call == permCall.v
        IN  /\ SelectionRejected(call) =>
                /\ call.pc = "returned"
                /\ call.res.kind = StatedRejection(call)
                /\ call.signer_calls = {}
            /\ call.signer_calls # {} => ~SelectionRejected(call)
            /\ (call.pc = "returned" /\ call.res.kind = "Ok") =>
                /\ ~SelectionRejected(call)
                /\ call.signer_calls = DOMAIN call.selected_credentials
                /\ OneItemPerCredential(call)

\* The other side of C29: two credentials with different selected-field lists
\* signed, and the response returned.
C29_ResponseReturned ==
    /\ PermAt("returned")
    /\ permCall.v.res.kind = "Ok"
    /\ Len(permCall.v.selected_credentials) = 2
    /\ permCall.v.selected_credentials[1].inner # permCall.v.selected_credentials[2].inner
    /\ permCall.v.selected_fields[1] # permCall.v.selected_fields[2]

\* C29's case: a call with two credentials and two selected-field lists turned
\* down for a limit_disclosure credential, the signer not invoked.
C29_Witness ==
    /\ PermAt("returned")
    /\ permCall.v.res.kind = "LimitDisclosure"
    /\ Len(permCall.v.selected_credentials) = 2
    /\ Len(permCall.v.selected_fields) = 2
    /\ permCall.v.signer_calls = {}

====
